---- MODULE Spec2Model ----
(***************************************************************************)
(* Verification model of the zks control plane:                            *)
(*   - WebSocketTransport      (crates/zks_wasm/src/transport.rs)          *)
(*   - BrowserOnionTransport   (crates/zks_wasm/src/onion_transport.rs)    *)
(*   - SignalingClient         (crates/zks_wire/src/signaling.rs)          *)
(*   - SwarmController         (crates/zks_wire/src/swarm_controller.rs)   *)
(* Three specifications share the variables: Spec (controller driving the  *)
(* signaling client), SpecTransport (WebSocketTransport) and SpecOnion     *)
(* (BrowserOnionTransport).  Each leaves the other components' variables   *)
(* at their constructed values.                                            *)
(***************************************************************************)
EXTENDS Integers, Sequences, FiniteSets, TLC

VARIABLES
    \* ---- WebSocketTransport (transport.rs:55-61) ----
    ws_websocket,           \* self.websocket: 0 = None, else the socket's index
    ws_message_queue,       \* self.message_queue
    ws_state,               \* self.state
    ws_max_reconnect,       \* self.config.max_reconnect_attempts
    ws_reconnect_attempts,  \* self.reconnect_attempts
    ws_sockets,             \* every browser WebSocket created by connect(): its phase
    ws_timers,              \* reconnection tasks spawned by onclose, not yet run
    ws_scheduled_open,      \* reconnection tasks spawned since the last onopen
    ws_scheduled_reset,     \* reconnection tasks spawned since the counter was last set to 0
    ws_last,                \* the method or handler that ran last
    \* ---- BrowserOnionTransport (onion_transport.rs:83-89) ----
    onion_websocket,        \* self.websocket: "None", else the phase of the socket it holds
    onion_circuits,         \* self.circuits: circuit_id -> OnionCircuit
    onion_message_queue,    \* self.message_queue
    onion_state,            \* self.state
    onion_max_reconnect,    \* self.config.max_reconnect_attempts
    onion_orphans,          \* live sockets the transport no longer holds: how many per phase
    onion_uuid,             \* number of identifiers drawn from Uuid::new_v4 so far
    onion_last,             \* the method or handler that ran last, what it returned and
                            \* the frames it handed to an open socket
    \* ---- SwarmController (swarm_controller.rs:41-50) and its SignalingClient ----
    platform,               \* self.platform, fixed by Platform::detect()
    signaling_client,       \* self.signaling_client: None, or Some(SignalingClient)
    is_connected,           \* self.is_connected
    local_peer_id,          \* self.local_peer_id: None, or Some(identifier)
    ws_stream,              \* the client's stream: "none", "open", or "ended"
    server_rooms,           \* rooms the server has this client's Join for
    uuid,                   \* number of identifiers drawn from Uuid::new_v4 so far
    call,                   \* the controller method in progress, suspended at an await
    last,                   \* the controller method that returned last, and its result
    \* ---- NativeP2PTransport (p2p.rs:72-77) and the swarm it drives ----
    native_connections,     \* the swarm: per peer, the addresses of its open connections
    native_connected_peers, \* self.connected_peers
    native_last,            \* the swarm event the loop of run() handled last
    \* ---- tasks calling one SwarmController concurrently ----
    tasks,                  \* per task: the await point its call is suspended at
    sig_lock,               \* holder of the write lock of self.signaling_client
    wire,                   \* the request sent last on the held client's stream
    task_last               \* the call that returned last, and what it returned

wsVars == << ws_websocket, ws_message_queue, ws_state, ws_max_reconnect,
             ws_reconnect_attempts, ws_sockets, ws_timers, ws_scheduled_open,
             ws_scheduled_reset, ws_last >>

onionVars == << onion_websocket, onion_circuits, onion_message_queue, onion_state,
                onion_max_reconnect, onion_orphans, onion_uuid, onion_last >>

ctlVars == << platform, signaling_client, is_connected, local_peer_id,
             ws_stream, server_rooms, uuid, call, last >>

nativeVars == << native_connections, native_connected_peers, native_last >>

taskVars == << tasks, sig_lock, wire, task_last >>

vars == << wsVars, onionVars, ctlVars, nativeVars, taskVars >>

(***************************************************************************)
(* Bounds of the model                                                     *)
(***************************************************************************)
MaxSockets == 3          \* connect() calls per transport instance
MaxQueue == 2            \* frames held in a message queue
MaxReconnectCfg == 3     \* largest max_reconnect_attempts given to new()
MaxOnionSockets == 1     \* sockets of one BrowserOnionTransport alive at a time
MaxCircuits == 2         \* identifiers drawn by one BrowserOnionTransport
MaxSkipped == 2          \* control frames one receive_message call skips
MaxUuid == 2             \* identifiers drawn by one SwarmController
MaxConnections == 2      \* connections the swarm has open to one peer at a time

(***************************************************************************)
(* Shared types                                                            *)
(***************************************************************************)
TransportState == {"Disconnected", "Connecting", "Connected", "Error"}

\* Lifecycle of one browser WebSocket object.  "closing": close() was called,
\* "errored": the error event fired and the close event is still to come.
SocketPhase == {"connecting", "open", "closing", "errored", "closed"}

Payloads == {"d1", "d2"}

(***************************************************************************)
(* WebSocketTransport                                                      *)
(***************************************************************************)
WsNew(max_reconnect_attempts) ==
    /\ ws_websocket = 0
    /\ ws_message_queue = << >>
    /\ ws_state = "Disconnected"
    /\ ws_max_reconnect = max_reconnect_attempts
    /\ ws_reconnect_attempts = 0
    /\ ws_sockets = << >>
    /\ ws_timers = 0
    /\ ws_scheduled_open = 0
    /\ ws_scheduled_reset = 0
    /\ ws_last = "new"

\* websocket.close(): a socket that is connecting or open starts closing
SocketClose(phase) ==
    IF phase \in {"connecting", "open"} THEN "closing" ELSE phase

\* connect(): creates a socket, installs the handlers on it, state := Connecting
WsConnect ==
    /\ Len(ws_sockets) < MaxSockets
    /\ ws_sockets' = Append(ws_sockets, "connecting")
    /\ ws_state' = "Connecting"
    /\ ws_websocket' = Len(ws_sockets) + 1
    /\ ws_last' = "connect"
    /\ UNCHANGED << ws_message_queue, ws_max_reconnect, ws_reconnect_attempts,
                    ws_timers, ws_scheduled_open, ws_scheduled_reset >>

\* disconnect(): closes the held socket, clears the queue, resets the counter
WsDisconnect ==
    /\ ws_sockets' = IF ws_websocket # 0
                     THEN [ws_sockets EXCEPT ![ws_websocket] = SocketClose(@)]
                     ELSE ws_sockets
    /\ ws_state' = "Disconnected"
    /\ ws_websocket' = 0
    /\ ws_message_queue' = << >>
    /\ ws_reconnect_attempts' = 0
    /\ ws_scheduled_reset' = 0
    /\ ws_last' = "disconnect"
    /\ UNCHANGED << ws_max_reconnect, ws_timers, ws_scheduled_open >>

\* receive(): pops the oldest queued frame
WsReceive ==
    /\ ws_message_queue # << >>
    /\ ws_message_queue' = Tail(ws_message_queue)
    /\ ws_last' = "receive"
    /\ UNCHANGED << ws_websocket, ws_state, ws_max_reconnect, ws_reconnect_attempts,
                    ws_sockets, ws_timers, ws_scheduled_open, ws_scheduled_reset >>

\* faulty variant of onopen that leaves the counter alone (C8 fails under it)
WsOnOpenKeepsCounter(s) ==
    /\ ws_sockets[s] = "connecting"
    /\ ws_sockets' = [ws_sockets EXCEPT ![s] = "open"]
    /\ ws_state' = "Connected"
    /\ ws_scheduled_open' = 0
    /\ ws_last' = "onopen"
    /\ UNCHANGED << ws_websocket, ws_message_queue, ws_max_reconnect, ws_timers,
                    ws_reconnect_attempts, ws_scheduled_reset >>

\* onopen: state := Connected, reconnect_attempts := 0
WsOnOpen(s) ==
    /\ ws_sockets[s] = "connecting"
    /\ ws_sockets' = [ws_sockets EXCEPT ![s] = "open"]
    /\ ws_state' = "Connected"
    /\ ws_reconnect_attempts' = 0
    /\ ws_scheduled_open' = 0
    /\ ws_scheduled_reset' = 0
    /\ ws_last' = "onopen"
    /\ UNCHANGED << ws_websocket, ws_message_queue, ws_max_reconnect, ws_timers >>

\* onmessage: an ArrayBuffer frame is queued, any other frame is dropped; the
\* browser delivers message events only while the socket is open
WsOnMessage(s, binary, data) ==
    /\ ws_sockets[s] = "open"
    /\ Len(ws_message_queue) < MaxQueue
    /\ ws_message_queue' = IF binary THEN Append(ws_message_queue, data)
                           ELSE ws_message_queue
    /\ ws_last' = "onmessage"
    /\ UNCHANGED << ws_websocket, ws_state, ws_max_reconnect, ws_reconnect_attempts,
                    ws_sockets, ws_timers, ws_scheduled_open, ws_scheduled_reset >>

\* onerror: state := Error
WsOnError(s) ==
    /\ ws_sockets[s] \in {"connecting", "open", "closing"}
    /\ ws_sockets' = [ws_sockets EXCEPT ![s] = "errored"]
    /\ ws_state' = "Error"
    /\ ws_last' = "onerror"
    /\ UNCHANGED << ws_websocket, ws_message_queue, ws_max_reconnect,
                    ws_reconnect_attempts, ws_timers, ws_scheduled_open,
                    ws_scheduled_reset >>

\* faulty variant of the test, off by one (C7 fails under it)
ShouldReconnectInclusive(attempts, max_reconnect_attempts) ==
    attempts <= max_reconnect_attempts

\* the test guarding the reconnection branch of onclose
ShouldReconnect(attempts, max_reconnect_attempts) ==
    attempts < max_reconnect_attempts

\* faulty variant of onclose that spawns the task without counting it (C28 fails
\* under it)
WsOnCloseKeepsCounter(s) ==
    /\ ws_sockets[s] \in {"open", "closing", "errored"}
    /\ ws_sockets' = [ws_sockets EXCEPT ![s] = "closed"]
    /\ ws_state' = "Disconnected"
    /\ IF ShouldReconnect(ws_reconnect_attempts, ws_max_reconnect)
       THEN /\ ws_timers' = ws_timers + 1
            /\ ws_scheduled_open' = ws_scheduled_open + 1
            /\ ws_scheduled_reset' = ws_scheduled_reset + 1
       ELSE UNCHANGED << ws_timers, ws_scheduled_open, ws_scheduled_reset >>
    /\ ws_last' = "onclose"
    /\ UNCHANGED << ws_websocket, ws_message_queue, ws_max_reconnect,
                    ws_reconnect_attempts >>

\* onclose: state := Disconnected; below the cap, count and spawn one attempt
WsOnClose(s) ==
    /\ ws_sockets[s] \in {"open", "closing", "errored"}
    /\ ws_sockets' = [ws_sockets EXCEPT ![s] = "closed"]
    /\ ws_state' = "Disconnected"
    /\ IF ShouldReconnect(ws_reconnect_attempts, ws_max_reconnect)
       THEN /\ ws_reconnect_attempts' = ws_reconnect_attempts + 1
            /\ ws_timers' = ws_timers + 1
            /\ ws_scheduled_open' = ws_scheduled_open + 1
            /\ ws_scheduled_reset' = ws_scheduled_reset + 1
       ELSE UNCHANGED << ws_reconnect_attempts, ws_timers, ws_scheduled_open,
                         ws_scheduled_reset >>
    /\ ws_last' = "onclose"
    /\ UNCHANGED << ws_websocket, ws_message_queue, ws_max_reconnect >>

\* the spawned task after its delay: it only logs, no reconnection is made
WsReconnectTask ==
    /\ ws_timers > 0
    /\ ws_timers' = ws_timers - 1
    /\ ws_last' = "reconnect_task"
    /\ UNCHANGED << ws_websocket, ws_message_queue, ws_state, ws_max_reconnect,
                    ws_reconnect_attempts, ws_sockets, ws_scheduled_open,
                    ws_scheduled_reset >>

(***************************************************************************)
(* Strings are sequences of one-character strings.                         *)
(***************************************************************************)
\* str::split(','): the fields between the commas, one field when there is none
RECURSIVE Split(_)
Split(s) ==
    IF \A i \in 1..Len(s) : s[i] # ","
    THEN << s >>
    ELSE LET i == CHOOSE k \in 1..Len(s) :
                     s[k] = "," /\ \A j \in 1..(k - 1) : s[j] # ","
         IN << SubSeq(s, 1, i - 1) >> \o Split(SubSeq(s, i + 1, Len(s)))

\* the base64 alphabet, restricted to the symbols the model's keys use
B64Alphabet == {"A", "B", "Q", "g", "/"}

B64Value(c) ==
    CASE c = "A" -> 0
      [] c = "B" -> 1
      [] c = "Q" -> 16
      [] c = "g" -> 32
      [] c = "/" -> 63

\* one 4-symbol group; a padded group is canonical only with zero trailing bits
B64Group(g, final) ==
    LET a == B64Value(g[1])
        b == B64Value(g[2])
        c == B64Value(g[3])
        d == B64Value(g[4])
    IN  IF \A i \in 1..4 : g[i] \in B64Alphabet
        THEN [ok |-> TRUE,
              bytes |-> << a * 4 + (b \div 16), (b % 16) * 16 + (c \div 4),
                           (c % 4) * 64 + d >>]
        ELSE IF final /\ g[4] = "=" /\ (\A i \in 1..3 : g[i] \in B64Alphabet)
                   /\ c % 4 = 0
        THEN [ok |-> TRUE, bytes |-> << a * 4 + (b \div 16), (b % 16) * 16 + (c \div 4) >>]
        ELSE IF final /\ g[3] = "=" /\ g[4] = "=" /\ (\A i \in 1..2 : g[i] \in B64Alphabet)
                   /\ b % 16 = 0
        THEN [ok |-> TRUE, bytes |-> << a * 4 + (b \div 16) >>]
        ELSE [ok |-> FALSE, bytes |-> << >>]

\* general_purpose::STANDARD.decode: padded, canonical base64
RECURSIVE B64Decode(_)
B64Decode(s) ==
    IF s = << >> THEN [ok |-> TRUE, bytes |-> << >>]
    ELSE IF Len(s) < 4 THEN [ok |-> FALSE, bytes |-> << >>]
    ELSE LET head == B64Group(SubSeq(s, 1, 4), Len(s) = 4)
             rest == B64Decode(SubSeq(s, 5, Len(s)))
         IN  IF head.ok /\ rest.ok
             THEN [ok |-> TRUE, bytes |-> head.bytes \o rest.bytes]
             ELSE [ok |-> FALSE, bytes |-> << >>]

(***************************************************************************)
(* BrowserOnionTransport                                                   *)
(***************************************************************************)
\* A JsValue handed to build_circuit: not a string, or a string
NotAString == [is_string |-> FALSE, str |-> << >>]
JsString(s) == [is_string |-> TRUE, str |-> s]

HopRelayA == JsString(<< "r", "A", ",", "p", "A", ",", "Q", "Q", "=", "=" >>)
HopRelayB == JsString(<< "r", "B", ",", "p", "B", "," >>)            \* empty key
HopTwoFields == JsString(<< "r", "A", ",", "p", "A" >>)
HopFourFields ==
    JsString(<< "r", "A", ",", "p", "A", ",", "Q", "Q", "=", "=", ",", "x" >>)
HopBadKey == JsString(<< "r", "A", ",", "p", "A", ",", "Q", "B", "=", "=" >>)
HopUnpadded == JsString(<< "r", "A", ",", "p", "A", ",", "Q", "Q" >>)

\* the hop lists given to build_circuit
HopLists ==
    { << >>,
      << HopRelayA, HopRelayB >>,
      << HopTwoFields >>,
      << HopRelayA, HopFourFields >>,
      << HopUnpadded >>,
      << HopBadKey, HopTwoFields >>,
      << NotAString, HopTwoFields >> }

\* faulty variant that lets a descriptor of more than three fields pass
\* (C13 fails under it)
ParseHopAtLeastThree(hop_js) ==
    IF ~hop_js.is_string
    THEN [ok |-> FALSE, err |-> "Invalid hop format"]
    ELSE LET parts == Split(hop_js.str)
         IN  IF Len(parts) < 3
             THEN [ok |-> FALSE,
                   err |-> "Each hop must be in format: relay_url,peer_id,public_key"]
             ELSE LET key == B64Decode(parts[3])
                  IN  IF ~key.ok
                      THEN [ok |-> FALSE, err |-> "Invalid public key"]
                      ELSE [ok |-> TRUE,
                            hop |-> [relay_url |-> parts[1], peer_id |-> parts[2],
                                     public_key |-> key.bytes]]

\* one iteration of the loop of build_circuit
ParseHop(hop_js) ==
    IF ~hop_js.is_string
    THEN [ok |-> FALSE, err |-> "Invalid hop format"]
    ELSE LET parts == Split(hop_js.str)
         IN  IF Len(parts) # 3
             THEN [ok |-> FALSE,
                   err |-> "Each hop must be in format: relay_url,peer_id,public_key"]
             ELSE LET key == B64Decode(parts[3])
                  IN  IF ~key.ok
                      THEN [ok |-> FALSE, err |-> "Invalid public key"]
                      ELSE [ok |-> TRUE,
                            hop |-> [relay_url |-> parts[1], peer_id |-> parts[2],
                                     public_key |-> key.bytes]]

\* faulty variant of the loop that leaves the hops in reverse order (C27 fails
\* under it)
RECURSIVE ParseHopsReversed(_)
ParseHopsReversed(hops) ==
    IF hops = << >> THEN [ok |-> TRUE, hops |-> << >>]
    ELSE LET first == ParseHop(Head(hops))
         IN  IF ~first.ok THEN first
             ELSE LET rest == ParseHopsReversed(Tail(hops))
                  IN  IF ~rest.ok THEN rest
                      ELSE [ok |-> TRUE, hops |-> rest.hops \o << first.hop >>]

\* the loop of build_circuit: the hops in order, or the first error
RECURSIVE ParseHops(_)
ParseHops(hops) ==
    IF hops = << >> THEN [ok |-> TRUE, hops |-> << >>]
    ELSE LET first == ParseHop(Head(hops))
         IN  IF ~first.ok THEN first
             ELSE LET rest == ParseHops(Tail(hops))
                  IN  IF ~rest.ok THEN rest
                      ELSE [ok |-> TRUE, hops |-> << first.hop >> \o rest.hops]

\* the loop of build_circuit on each hop list of the model, computed once
ParsedHopLists == [hops \in HopLists |-> ParseHops(hops)]

LivePhases == SocketPhase \ {"closed"}

OnionNew(max_reconnect_attempts) ==
    /\ onion_websocket = "None"
    /\ onion_circuits = << >>
    /\ onion_message_queue = << >>
    /\ onion_state = "Disconnected"
    /\ onion_max_reconnect = max_reconnect_attempts
    /\ onion_orphans = [p \in LivePhases |-> 0]
    /\ onion_uuid = 0
    /\ onion_last = [op |-> "new"]

\* send_onion_message: what handing a frame to the held socket does
OnionSendOutcome ==
    IF onion_websocket = "None" THEN "Not connected to relay"
    ELSE IF onion_websocket = "connecting" THEN "InvalidStateError"
    ELSE IF onion_websocket = "open" THEN "sent"
    ELSE "discarded"     \* send() on a closing or closed socket returns normally

OnionSendOk == OnionSendOutcome \in {"sent", "discarded"}

\* a method that ends in send_onion_message(message): its return and what went out
OnionSendReturn(op, value, message) ==
    IF OnionSendOk
    THEN [op |-> op, ok |-> TRUE, value |-> value,
          sent |-> IF OnionSendOutcome = "sent" THEN << message >> ELSE << >>]
    ELSE [op |-> op, ok |-> FALSE, err |-> OnionSendOutcome, sent |-> << >>]

\* a method that returns before any send
OnionFail(op, err) == [op |-> op, ok |-> FALSE, err |-> err, sent |-> << >>]

\* faulty variant that also drops the entries with a smaller key (C11 fails under it)
MapRemoveUpTo(m, k) == [x \in DOMAIN m \ (1..k) |-> m[x]]

\* HashMap::remove: the map without the key, every other entry as it was
MapRemove(m, k) == [x \in DOMAIN m \ {k} |-> m[x]]

\* the sockets events can come from: the held one, or an orphan in a given phase
OnionSockets == {"held"} \cup LivePhases

OnionSocketIn(s, phases) ==
    IF s = "held" THEN onion_websocket \in phases
    ELSE s \in phases /\ onion_orphans[s] > 0

OnionOrphansMoved(from, to) ==
    [p \in LivePhases |-> onion_orphans[p] - (IF p = from THEN 1 ELSE 0)
                                           + (IF p = to THEN 1 ELSE 0)]

OnionSocketTo(s, phase) ==
    IF s = "held"
    THEN onion_websocket' = phase /\ UNCHANGED onion_orphans
    ELSE onion_orphans' = OnionOrphansMoved(s, phase) /\ UNCHANGED onion_websocket

OnionLiveSockets ==
    onion_orphans["connecting"] + onion_orphans["open"] + onion_orphans["closing"]
    + onion_orphans["errored"] + (IF onion_websocket \in LivePhases THEN 1 ELSE 0)

\* connect(): creates a socket, installs the handlers on it, state := Connecting;
\* the socket held before stays alive with its handlers
OnionConnect ==
    /\ OnionLiveSockets < MaxOnionSockets
    /\ onion_orphans' = IF onion_websocket \in LivePhases
                        THEN OnionOrphansMoved("None", onion_websocket)
                        ELSE onion_orphans
    /\ onion_state' = "Connecting"
    /\ onion_websocket' = "connecting"
    /\ onion_last' = [op |-> "connect"]
    /\ UNCHANGED << onion_circuits, onion_message_queue, onion_max_reconnect,
                    onion_uuid >>

\* faulty variant that hands out the first identifier again (C16 fails under it)
NewCircuitIdRepeated == IF onion_uuid = 0 THEN onion_uuid + 1 ELSE onion_uuid

\* Uuid::new_v4(): an identifier not drawn before
NewCircuitId == onion_uuid + 1

\* build_circuit: parse every descriptor, store the circuit, send BuildCircuit
OnionBuildCircuit(hops) ==
    /\ onion_uuid < MaxCircuits
    /\ onion_uuid' = onion_uuid + 1
    /\ LET circuit_id == NewCircuitId
           parsed == ParsedHopLists[hops]
       IN  IF ~parsed.ok
           THEN /\ onion_last' = OnionFail("build_circuit", parsed.err)
                                   @@ [hops |-> hops]
                /\ UNCHANGED onion_circuits
           ELSE /\ onion_circuits' =
                       (circuit_id :> [circuit_id |-> circuit_id, hops |-> parsed.hops,
                                       encryption_keys |-> << >>]) @@ onion_circuits
                /\ onion_last' = OnionSendReturn("build_circuit", circuit_id,
                                                 [type |-> "BuildCircuit",
                                                  circuit_id |-> circuit_id,
                                                  hops |-> parsed.hops])
                                   @@ [hops |-> hops]
    /\ UNCHANGED << onion_websocket, onion_message_queue, onion_state,
                    onion_max_reconnect, onion_orphans >>

\* faulty variant that does not look the circuit up (C12 fails under it)
OnionSendThroughCircuitUnchecked(circuit_id, data) ==
    /\ onion_last' = OnionSendReturn("send_through_circuit", "unit",
                                     [type |-> "ForwardData",
                                      circuit_id |-> circuit_id, data |-> data])
                          @@ [circuit_id |-> circuit_id, data |-> data]
    /\ UNCHANGED << onion_websocket, onion_circuits, onion_message_queue, onion_state,
                    onion_max_reconnect, onion_orphans, onion_uuid >>

\* send_through_circuit: unknown circuit is an error, else send ForwardData
OnionSendThroughCircuit(circuit_id, data) ==
    /\ IF circuit_id \notin DOMAIN onion_circuits
       THEN onion_last' = OnionFail("send_through_circuit", "Circuit not found")
                              @@ [circuit_id |-> circuit_id, data |-> data]
       ELSE onion_last' = OnionSendReturn("send_through_circuit", "unit",
                                          [type |-> "ForwardData",
                                           circuit_id |-> circuit_id, data |-> data])
                              @@ [circuit_id |-> circuit_id, data |-> data]
    /\ UNCHANGED << onion_websocket, onion_circuits, onion_message_queue, onion_state,
                    onion_max_reconnect, onion_orphans, onion_uuid >>

\* faulty variant that pops the newest payload (C17 fails under it)
OnionReceiveNewest(circuit_id) ==
    /\ IF onion_message_queue = << >>
       THEN /\ onion_last' = [op |-> "receive_from_circuit", ok |-> TRUE,
                              value |-> "None", sent |-> << >>,
                              circuit_id |-> circuit_id]
            /\ UNCHANGED onion_message_queue
       ELSE /\ onion_last' = [op |-> "receive_from_circuit", ok |-> TRUE,
                              value |-> onion_message_queue[Len(onion_message_queue)],
                              sent |-> << >>, circuit_id |-> circuit_id]
            /\ onion_message_queue' =
                   SubSeq(onion_message_queue, 1, Len(onion_message_queue) - 1)
    /\ UNCHANGED << onion_websocket, onion_circuits, onion_state, onion_max_reconnect,
                    onion_orphans, onion_uuid >>

\* receive_from_circuit: pops the oldest queued payload, whatever the circuit
OnionReceiveFromCircuit(circuit_id) ==
    /\ IF onion_message_queue = << >>
       THEN /\ onion_last' = [op |-> "receive_from_circuit", ok |-> TRUE,
                              value |-> "None", sent |-> << >>,
                              circuit_id |-> circuit_id]
            /\ UNCHANGED onion_message_queue
       ELSE /\ onion_last' = [op |-> "receive_from_circuit", ok |-> TRUE,
                              value |-> Head(onion_message_queue), sent |-> << >>,
                              circuit_id |-> circuit_id]
            /\ onion_message_queue' = Tail(onion_message_queue)
    /\ UNCHANGED << onion_websocket, onion_circuits, onion_state, onion_max_reconnect,
                    onion_orphans, onion_uuid >>

\* the call before this one was teardown_circuit of the same circuit
TeardownAgain(circuit_id) ==
    /\ onion_last.op = "teardown_circuit"
    /\ onion_last.circuit_id = circuit_id

\* teardown_circuit: removes the entry, sends TearDownCircuit
OnionTeardownCircuit(circuit_id) ==
    /\ onion_circuits' = MapRemove(onion_circuits, circuit_id)
    /\ onion_last' = OnionSendReturn("teardown_circuit", "unit",
                                     [type |-> "TearDownCircuit",
                                      circuit_id |-> circuit_id])
                          @@ [circuit_id |-> circuit_id,
                              again |-> TeardownAgain(circuit_id)]
    /\ UNCHANGED << onion_websocket, onion_message_queue, onion_state,
                    onion_max_reconnect, onion_orphans, onion_uuid >>

\* faulty variant of disconnect that keeps the queued payloads (C24 fails under it)
OnionDisconnectKeepsQueue ==
    /\ onion_orphans' = IF onion_websocket \in LivePhases
                        THEN OnionOrphansMoved("None", SocketClose(onion_websocket))
                        ELSE onion_orphans
    /\ onion_state' = "Disconnected"
    /\ onion_websocket' = "None"
    /\ onion_circuits' = << >>
    /\ onion_last' = [op |-> "disconnect", circuits |-> DOMAIN onion_circuits,
                      queued |-> Len(onion_message_queue)]
    /\ UNCHANGED << onion_message_queue, onion_max_reconnect, onion_uuid >>

\* disconnect: closes the held socket, clears the circuits and the queue; the
\* record keeps which circuits and how many payloads the call found
OnionDisconnect ==
    /\ onion_orphans' = IF onion_websocket \in LivePhases
                        THEN OnionOrphansMoved("None", SocketClose(onion_websocket))
                        ELSE onion_orphans
    /\ onion_state' = "Disconnected"
    /\ onion_websocket' = "None"
    /\ onion_circuits' = << >>
    /\ onion_message_queue' = << >>
    /\ onion_last' = [op |-> "disconnect", circuits |-> DOMAIN onion_circuits,
                      queued |-> Len(onion_message_queue)]
    /\ UNCHANGED << onion_max_reconnect, onion_uuid >>

\* onopen: state := Connected
OnionOnOpen(s) ==
    /\ OnionSocketIn(s, {"connecting"})
    /\ OnionSocketTo(s, "open")
    /\ onion_state' = "Connected"
    /\ onion_last' = [op |-> "onopen"]
    /\ UNCHANGED << onion_circuits, onion_message_queue, onion_max_reconnect,
                    onion_uuid >>

\* frames the relay can deliver: any OnionMessage, unparsable text, a non-text frame
OnionInbound ==
    { [type |-> "DataReceived", circuit_id |-> c, data |-> d] :
          c \in 1..MaxCircuits, d \in Payloads }
    \cup { [type |-> t, circuit_id |-> c] :
          t \in {"CircuitTornDown", "TearDownCircuit"}, c \in 1..MaxCircuits }
    \cup { [type |-> t, circuit_id |-> 1] :
          t \in {"CircuitBuilt", "Error", "BuildCircuit", "ForwardData"} }
    \cup { [type |-> "unparsable"], [type |-> "binary"] }

\* the message types whose circuit_id names the circuit the handler removes
NamingTypes == {"CircuitTornDown", "TearDownCircuit"}

\* faulty variant in which an Error message drops the first circuit (C40 fails
\* under it)
OnionOnMessageErrorDrops(s, frame) ==
    /\ OnionSocketIn(s, {"open"})
    /\ frame.type = "DataReceived" => Len(onion_message_queue) < MaxQueue
    /\ onion_message_queue' = IF frame.type = "DataReceived"
                              THEN Append(onion_message_queue, frame.data)
                              ELSE onion_message_queue
    /\ onion_circuits' = IF frame.type \in {"CircuitTornDown", "TearDownCircuit", "Error"}
                         THEN MapRemove(onion_circuits, frame.circuit_id)
                         ELSE onion_circuits
    /\ onion_last' = [op |-> "onmessage", type |-> frame.type,
                      circuit_id |-> IF frame.type \in NamingTypes
                                     THEN frame.circuit_id ELSE 0]
    /\ UNCHANGED << onion_websocket, onion_state, onion_max_reconnect, onion_orphans,
                    onion_uuid >>

\* onmessage: DataReceived is queued, CircuitTornDown and TearDownCircuit remove
\* the circuit, everything else is only logged; the browser delivers message
\* events only while the socket is open
OnionOnMessage(s, frame) ==
    /\ OnionSocketIn(s, {"open"})
    /\ frame.type = "DataReceived" => Len(onion_message_queue) < MaxQueue
    /\ onion_message_queue' = IF frame.type = "DataReceived"
                              THEN Append(onion_message_queue, frame.data)
                              ELSE onion_message_queue
    /\ onion_circuits' = IF frame.type \in {"CircuitTornDown", "TearDownCircuit"}
                         THEN MapRemove(onion_circuits, frame.circuit_id)
                         ELSE onion_circuits
    /\ onion_last' = [op |-> "onmessage", type |-> frame.type,
                      circuit_id |-> IF frame.type \in NamingTypes
                                     THEN frame.circuit_id ELSE 0]
    /\ UNCHANGED << onion_websocket, onion_state, onion_max_reconnect, onion_orphans,
                    onion_uuid >>

\* onerror: state := Error
OnionOnError(s) ==
    /\ OnionSocketIn(s, {"connecting", "open", "closing"})
    /\ OnionSocketTo(s, "errored")
    /\ onion_state' = "Error"
    /\ onion_last' = [op |-> "onerror"]
    /\ UNCHANGED << onion_circuits, onion_message_queue, onion_max_reconnect,
                    onion_uuid >>

\* faulty variant of onclose that also drops the circuits (C22 fails under it)
OnionOnCloseClearsCircuits(s) ==
    /\ OnionSocketIn(s, {"open", "closing", "errored"})
    /\ OnionSocketTo(s, "closed")
    /\ onion_state' = "Disconnected"
    /\ onion_circuits' = << >>
    /\ onion_last' = [op |-> "onclose"]
    /\ UNCHANGED << onion_message_queue, onion_max_reconnect, onion_uuid >>

\* onclose: state := Disconnected
OnionOnClose(s) ==
    /\ OnionSocketIn(s, {"open", "closing", "errored"})
    /\ OnionSocketTo(s, "closed")
    /\ onion_state' = "Disconnected"
    /\ onion_last' = [op |-> "onclose"]
    /\ UNCHANGED << onion_circuits, onion_message_queue, onion_max_reconnect,
                    onion_uuid >>

(***************************************************************************)
(* SignalingClient                                                         *)
(***************************************************************************)
EntropyLen == 32

Rooms == {"test-room", "default"}

LocalPeerIds == {"test-peer"}

DefaultCapabilities ==
    [supports_p2p |-> TRUE, supports_relay |-> TRUE, supports_onion_routing |-> FALSE,
     max_message_size |-> 65536, supported_protocols |-> << "zks/1.0" >>, max_hops |-> 3]

PeerInfo(peer_id, last_seen) ==
    [peer_id |-> peer_id, public_key |-> << >>, capabilities |-> DefaultCapabilities,
     last_seen |-> last_seen, addresses |-> << >>]

\* a byte buffer of the given length
Bytes(len, seed) == [i \in 1..len |-> (seed + i) % 256]

\* Option<T>
None == << >>
Some(x) == << x >>

\* Result values of the client's methods
Ok(value) == [ok |-> TRUE, value |-> value, err |-> "none"]
Err(kind) == [ok |-> FALSE, value |-> "none", err |-> kind]
NotInvoked == Err("not invoked")

\* what the server can put on the stream
PeerLists ==
    { << >>,
      << PeerInfo("p1", 1) >>,
      << PeerInfo("p1", 1), PeerInfo("p2", 1) >>,
      << PeerInfo("p1", 1), PeerInfo("peerX", 1) >> }

EntropyPayloads == { Bytes(EntropyLen, 0), Bytes(EntropyLen \div 2, 0), Bytes(EntropyLen + 1, 0) }

ServerMessages ==
    { [type |-> "Peers", peers |-> l] : l \in PeerLists }
    \cup { [type |-> "EntropyResponse", request_id |-> r, entropy |-> e,
            signature |-> << >>] : r \in 1..MaxUuid, e \in EntropyPayloads }
    \cup { [type |-> "Error", code |-> "E1", message |-> "m"],
           [type |-> "Leave", room_id |-> "test-room"],
           [type |-> "unparsable"] }

SkippedKinds == {"Binary", "Ping", "Pong", "Frame"}

\* "End" is the stream returning None, "Err" a transport error
TerminalKinds == {"Close", "End", "Err"}

ServerFrames ==
    { [kind |-> "Text", msg |-> m] : m \in ServerMessages }
    \cup { [kind |-> k] : k \in SkippedKinds \cup TerminalKinds }

NoFrame == [kind |-> "none"]

\* the frames that end the loop of receive_message: text, close, end of stream,
\* transport error
DecidingFrames == { f \in ServerFrames : f.kind \in {"Text"} \cup TerminalKinds }

\* stream.send fails once the stream has ended, or when the network fails it
SendSucceeds(net_ok) == net_ok /\ ws_stream = "open"

\* faulty variant in which a binary frame ends the loop (C19 fails under it)
ReceiveStepBinaryEnds(frame) ==
    CASE frame.kind = "Text" ->
            IF frame.msg.type = "unparsable"
            THEN [done |-> TRUE, closed |-> FALSE, result |-> Err("DeserializationFailed")]
            ELSE [done |-> TRUE, closed |-> FALSE, result |-> Ok(frame.msg)]
      [] frame.kind \in {"Ping", "Pong", "Frame"} ->
            [done |-> FALSE, closed |-> FALSE, result |-> NotInvoked]
      [] frame.kind \in {"Close", "End"} ->
            [done |-> TRUE, closed |-> TRUE, result |-> Err("ConnectionClosed")]
      [] frame.kind \in {"Err", "Binary"} ->
            [done |-> TRUE, closed |-> FALSE, result |-> Err("ReceiveFailed")]

\* faulty variant in which a ping ends the loop (C30 fails under it)
ReceiveStepPingEnds(frame) ==
    CASE frame.kind = "Text" ->
            IF frame.msg.type = "unparsable"
            THEN [done |-> TRUE, closed |-> FALSE, result |-> Err("DeserializationFailed")]
            ELSE [done |-> TRUE, closed |-> FALSE, result |-> Ok(frame.msg)]
      [] frame.kind \in {"Binary", "Pong", "Frame"} ->
            [done |-> FALSE, closed |-> FALSE, result |-> NotInvoked]
      [] frame.kind \in {"Close", "End"} ->
            [done |-> TRUE, closed |-> TRUE, result |-> Err("ConnectionClosed")]
      [] frame.kind \in {"Err", "Ping"} ->
            [done |-> TRUE, closed |-> FALSE, result |-> Err("ReceiveFailed")]

\* faulty variant in which a transport error also clears the flag (C38 fails under it)
ReceiveStepErrCloses(frame) ==
    CASE frame.kind = "Text" ->
            IF frame.msg.type = "unparsable"
            THEN [done |-> TRUE, closed |-> FALSE, result |-> Err("DeserializationFailed")]
            ELSE [done |-> TRUE, closed |-> FALSE, result |-> Ok(frame.msg)]
      [] frame.kind \in SkippedKinds ->
            [done |-> FALSE, closed |-> FALSE, result |-> NotInvoked]
      [] frame.kind \in {"Close", "End"} ->
            [done |-> TRUE, closed |-> TRUE, result |-> Err("ConnectionClosed")]
      [] frame.kind = "Err" ->
            [done |-> TRUE, closed |-> TRUE, result |-> Err("ReceiveFailed")]

\* one iteration of the loop of receive_message on the frame read:
\* done = FALSE means `continue`
ReceiveStep(frame) ==
    CASE frame.kind = "Text" ->
            IF frame.msg.type = "unparsable"
            THEN [done |-> TRUE, closed |-> FALSE, result |-> Err("DeserializationFailed")]
            ELSE [done |-> TRUE, closed |-> FALSE, result |-> Ok(frame.msg)]
      [] frame.kind \in SkippedKinds ->
            [done |-> FALSE, closed |-> FALSE, result |-> NotInvoked]
      [] frame.kind \in {"Close", "End"} ->
            [done |-> TRUE, closed |-> TRUE, result |-> Err("ConnectionClosed")]
      [] frame.kind = "Err" ->
            [done |-> TRUE, closed |-> FALSE, result |-> Err("ReceiveFailed")]

\* faulty variant of the match that has no arm for Peers (C3 fails under it)
DiscoverMatchWithoutPeers(response) ==
    CASE response.type = "Error" -> Err("ServerError")
      [] OTHER -> Err("UnexpectedMessage")

\* the match of discover_peers on the message received
DiscoverMatch(response) ==
    CASE response.type = "Peers" -> Ok(response.peers)
      [] response.type = "Error" -> Err("ServerError")
      [] OTHER -> Err("UnexpectedMessage")

\* faulty variant that accepts any identifier (C1 fails under it)
RequestIdAny(resp_id, request_id) == TRUE

\* `resp_id != request_id`, negated
RequestIdMatches(resp_id, request_id) == resp_id = request_id

\* faulty variant that accepts short payloads (C2 fails under it)
EntropyLenAtMost(entropy) == Len(entropy) <= EntropyLen

\* `entropy.len() != 32`, negated
EntropyLenOk(entropy) == Len(entropy) = EntropyLen

\* the match of get_swarm_entropy on the message received
EntropyMatch(response, request_id) ==
    CASE response.type = "EntropyResponse" ->
            IF ~RequestIdMatches(response.request_id, request_id)
            THEN Err("UnexpectedMessage")
            ELSE IF ~EntropyLenOk(response.entropy)
            THEN Err("InvalidEntropy")
            ELSE Ok(response.entropy)
      [] response.type = "Error" -> Err("ServerError")
      [] OTHER -> Err("UnexpectedMessage")

(***************************************************************************)
(* SwarmController                                                         *)
(***************************************************************************)
UsizeMax == 2147483647

Platforms == {"Native", "WebAssembly"}

\* faulty variant that answers with the native bounds everywhere (C23 fails under it)
TransportCapabilitiesNativeOnly(p) ==
    [supports_direct_p2p |-> TRUE, supports_nat_traversal |-> TRUE,
     supports_relay |-> TRUE, max_hops |-> 8, min_hops |-> 2]

\* transport_capabilities()
TransportCapabilities(p) ==
    IF p = "Native"
    THEN [supports_direct_p2p |-> TRUE, supports_nat_traversal |-> TRUE,
          supports_relay |-> TRUE, max_hops |-> 8, min_hops |-> 2]
    ELSE [supports_direct_p2p |-> FALSE, supports_nat_traversal |-> FALSE,
          supports_relay |-> TRUE, max_hops |-> 6, min_hops |-> 3]

\* the (min_hops, max_hops) arguments callers give to build_onion_circuit
HopArgs ==
    { << 1, 5 >>, << 2, 5 >>, << 2, 3 >>, << 3, 3 >>, << 3, 1 >>, << 3, 0 >>,
      << 5, 3 >>, << 2, 9 >>, << 0, 255 >> }

Targets == {"peerX"}

\* faulty variant that forgets the upper bound (C4 fails under it)
InvalidCircuitConfigMinOnly(min_hops, max_hops) ==
    min_hops < TransportCapabilities(platform).min_hops

\* the test that rejects a build_onion_circuit call
InvalidCircuitConfig(min_hops, max_hops) ==
    \/ min_hops < TransportCapabilities(platform).min_hops
    \/ max_hops > TransportCapabilities(platform).max_hops

\* faulty variant asking for one peer fewer (C5 fails under it)
NeededPeersOneLess(max_hops) == IF max_hops = 0 THEN UsizeMax ELSE max_hops - 2

\* `max_hops as usize - 1`: this subtraction overflows for 0
NeededPeers(max_hops) == IF max_hops = 0 THEN UsizeMax ELSE max_hops - 1

NotEnoughPeers(peers, max_hops) == Len(peers) < NeededPeers(max_hops)

\* the orders shuffle() can leave n elements in
Shuffles(n) == { f \in [1..n -> 1..n] : \A i, j \in 1..n : f[i] = f[j] => i = j }

\* faulty variant that keeps every discovered peer in the path (C25 fails under it)
CircuitPeersTakesAll(peers, order, target_peer, max_hops) ==
    [i \in 1..Len(peers) |-> peers[order[i]]] \o << PeerInfo(target_peer, 0) >>

\* circuit_peers: the first max_hops - 1 shuffled peers, then the target
CircuitPeers(peers, order, target_peer, max_hops) ==
    LET taken == IF max_hops - 1 < Len(peers) THEN max_hops - 1 ELSE Len(peers)
    IN  [i \in 1..taken |-> peers[order[i]]] \o << PeerInfo(target_peer, 0) >>

SwarmControllerNew(p) ==
    /\ platform = p
    /\ signaling_client = None
    /\ is_connected = FALSE
    /\ local_peer_id = None
    /\ ws_stream = "none"
    /\ server_rooms = {}
    /\ uuid = 0
    /\ call = [op |-> "none"]
    /\ last = [op |-> "new"]

\* a method in progress: its name, arguments, the messages it sent and the
\* number of frames its receive loop has skipped
Call(op, room_id, target_peer, min_hops, max_hops, request_id, sent) ==
    [op |-> op, room_id |-> room_id, target_peer |-> target_peer,
     min_hops |-> min_hops, max_hops |-> max_hops, request_id |-> request_id,
     sent |-> sent, skipped |-> 0]

\* what a returned method leaves: the frame its receive loop ended on, the client
\* method's result (sig), the controller method's result (ret), and the path a
\* circuit was built over
Returned(c, frame, sig, ret, path) ==
    [op |-> c.op, room_id |-> c.room_id, target_peer |-> c.target_peer,
     min_hops |-> c.min_hops, max_hops |-> c.max_hops, request_id |-> c.request_id,
     sent |-> c.sent, skipped |-> c.skipped, frame |-> frame,
     sig |-> sig, ret |-> ret, path |-> path]

\* map_err(|e| SwarmControllerError::SignalingError(..))
WrapSignaling(sig) ==
    IF sig.ok THEN sig ELSE [ok |-> FALSE, value |-> sig.err, err |-> "SignalingError"]

\* connect(): stores local_peer_id, then opens the client
Connect(peer_id, net_ok) ==
    /\ call.op = "none"
    /\ local_peer_id' = Some(peer_id)
    /\ IF net_ok
       THEN /\ signaling_client' = Some([peer_id |-> peer_id, is_connected |-> TRUE])
            /\ is_connected' = TRUE
            /\ ws_stream' = "open"
            /\ server_rooms' = {}
            /\ last' = Returned(Call("connect", "", "", 0, 0, 0, << >>), NoFrame,
                                Ok("client"), Ok("unit"), << >>)
       ELSE /\ last' = Returned(Call("connect", "", "", 0, 0, 0, << >>), NoFrame,
                                Err("ConnectionFailed"),
                                WrapSignaling(Err("ConnectionFailed")), << >>)
            /\ UNCHANGED << signaling_client, is_connected, ws_stream, server_rooms >>
    /\ UNCHANGED << platform, uuid, call >>

\* faulty variant of disconnect() that leaves the flag set (C15 fails under it)
DisconnectKeepsFlag ==
    /\ call.op = "none"
    /\ signaling_client' = None
    /\ ws_stream' = "none"
    /\ server_rooms' = {}
    /\ last' = Returned(Call("disconnect", "", "", 0, 0, 0, << >>), NoFrame,
                        NotInvoked, Ok("unit"), << >>)
    /\ UNCHANGED << platform, local_peer_id, uuid, call, is_connected >>

\* disconnect(): drops the client
Disconnect ==
    /\ call.op = "none"
    /\ signaling_client' = None
    /\ is_connected' = FALSE
    /\ ws_stream' = "none"
    /\ server_rooms' = {}
    /\ last' = Returned(Call("disconnect", "", "", 0, 0, 0, << >>), NoFrame,
                        NotInvoked, Ok("unit"), << >>)
    /\ UNCHANGED << platform, local_peer_id, uuid, call >>

\* a method that returns without reaching an await on the stream
ReturnNow(c, sig, ret) ==
    /\ last' = Returned(c, NoFrame, sig, ret, << >>)
    /\ server_rooms' =
           server_rooms \cup { c.sent[i].room_id : i \in { j \in 1..Len(c.sent) :
                                                             c.sent[j].type = "Join" } }
    /\ UNCHANGED << platform, signaling_client, is_connected,
                    local_peer_id, ws_stream, call >>

\* a method whose request went out and that now awaits receive_message; the
\* result of the method before it is no longer looked at
Suspend(c) ==
    /\ call' = c
    /\ last' = [op |-> "pending"]
    /\ UNCHANGED << platform, signaling_client, is_connected,
                    local_peer_id, ws_stream, server_rooms >>

\* Who holds each tokio RwLock of the controller while a method is suspended.
\* The guard of `self.signaling_client.write().await` is a temporary of the
\* `if let` scrutinee, so it lives to the end of the statement: across the
\* `client.discover_peers(..).await` or `client.get_swarm_entropy(..).await`
\* inside.  The is_connected and local_peer_id guards end with their statement.
LockHolders ==
    [signaling_client |-> IF call.op # "none" THEN {call.op} ELSE {},
     is_connected |-> {},
     local_peer_id |-> {}]

\* join_room(): sends Join and returns
JoinRoom(room_id, net_ok) ==
    /\ call.op = "none"
    /\ UNCHANGED uuid
    /\ IF signaling_client = None
       THEN ReturnNow(Call("join_room", room_id, "", 0, 0, 0, << >>),
                      NotInvoked, Err("NotConnected"))
       ELSE IF ~SendSucceeds(net_ok)
       THEN ReturnNow(Call("join_room", room_id, "", 0, 0, 0, << >>),
                      Err("SendFailed"), WrapSignaling(Err("SendFailed")))
       ELSE ReturnNow(Call("join_room", room_id, "", 0, 0, 0,
                           << [type |-> "Join", room_id |-> room_id,
                               peer_info |-> PeerInfo(signaling_client[1].peer_id, 1)] >>),
                      Ok("unit"), Ok("unit"))

\* faulty variant that goes to the client without looking whether there is one
\* (C14 fails under it)
StartDiscoverUnchecked(op, room_id, target_peer, min_hops, max_hops, net_ok) ==
    IF ~SendSucceeds(net_ok)
    THEN ReturnNow(Call(op, room_id, target_peer, min_hops, max_hops, 0, << >>),
                   Err("SendFailed"), WrapSignaling(Err("SendFailed")))
    ELSE Suspend(Call(op, room_id, target_peer, min_hops, max_hops, 0,
                      << [type |-> "Discover", room_id |-> room_id] >>))

\* discover_peers() up to its await: sends Discover
StartDiscover(op, room_id, target_peer, min_hops, max_hops, net_ok) ==
    IF signaling_client = None
    THEN ReturnNow(Call(op, room_id, target_peer, min_hops, max_hops, 0, << >>),
                   NotInvoked, Err("NotConnected"))
    ELSE IF ~SendSucceeds(net_ok)
    THEN ReturnNow(Call(op, room_id, target_peer, min_hops, max_hops, 0, << >>),
                   Err("SendFailed"), WrapSignaling(Err("SendFailed")))
    ELSE Suspend(Call(op, room_id, target_peer, min_hops, max_hops, 0,
                      << [type |-> "Discover", room_id |-> room_id] >>))

DiscoverPeers(room_id, net_ok) ==
    /\ call.op = "none"
    /\ UNCHANGED uuid
    /\ StartDiscover("discover_peers", room_id, "", 0, 0, net_ok)

\* get_swarm_entropy() up to its await: draws a request_id, sends EntropyRequest
GetSwarmEntropy(room_id, net_ok) ==
    /\ call.op = "none"
    /\ IF signaling_client = None
       THEN /\ UNCHANGED uuid
            /\ ReturnNow(Call("get_swarm_entropy", room_id, "", 0, 0, 0, << >>),
                         NotInvoked, Err("NotConnected"))
       ELSE /\ uuid < MaxUuid
            /\ uuid' = uuid + 1
            /\ IF ~SendSucceeds(net_ok)
               THEN ReturnNow(Call("get_swarm_entropy", room_id, "", 0, 0, uuid + 1, << >>),
                              Err("SendFailed"), WrapSignaling(Err("SendFailed")))
               ELSE Suspend(Call("get_swarm_entropy", room_id, "", 0, 0, uuid + 1,
                                 << [type |-> "EntropyRequest", room_id |-> room_id,
                                     request_id |-> uuid + 1] >>))

\* build_onion_circuit() up to its await: validates the hops, starts discovery
BuildOnionCircuit(target_peer, min_hops, max_hops, net_ok) ==
    /\ call.op = "none"
    /\ UNCHANGED uuid
    /\ IF InvalidCircuitConfig(min_hops, max_hops)
       THEN ReturnNow(Call("build_onion_circuit", "", target_peer, min_hops, max_hops,
                           0, << >>),
                      NotInvoked, Err("InvalidCircuitConfig"))
       ELSE StartDiscover("build_onion_circuit", "default", target_peer, min_hops,
                          max_hops, net_ok)

\* build_onion_circuit() after discovery returned; whether the overflowing
\* subtraction traps depends on the build
FinishBuild(c, frame, sig, checks) ==
    IF ~sig.ok
    THEN /\ last' = Returned(c, frame, sig, WrapSignaling(sig), << >>)
         /\ UNCHANGED uuid
    ELSE IF c.max_hops = 0 /\ checks
    THEN /\ last' = Returned(c, frame, sig, Err("panic"), << >>)
         /\ UNCHANGED uuid
    ELSE IF NotEnoughPeers(sig.value, c.max_hops)
    THEN /\ last' = Returned(c, frame, sig, Err("NotEnoughPeers"), << >>)
         /\ UNCHANGED uuid
    ELSE /\ uuid < MaxUuid
         /\ uuid' = uuid + 1
         /\ \E order \in Shuffles(Len(sig.value)) :
                last' = Returned(c, frame, sig, Ok(uuid + 1),
                                 CircuitPeers(sig.value, order, c.target_peer, c.max_hops))

\* send_through_circuit(): logs and returns Ok(()); no transport is called
SendThroughCircuit(circuit_id, data) ==
    /\ last' = [op |-> "send_through_circuit", circuit_id |-> circuit_id,
                data |-> data, ret |-> Ok("unit")]
    /\ UNCHANGED << platform, signaling_client, is_connected, local_peer_id,
                    ws_stream, server_rooms, uuid, call >>

\* receive_from_circuit(): logs and returns Ok(None)
ReceiveFromCircuit(circuit_id) ==
    /\ last' = [op |-> "receive_from_circuit", circuit_id |-> circuit_id,
                ret |-> Ok(None)]
    /\ UNCHANGED << platform, signaling_client, is_connected, local_peer_id,
                    ws_stream, server_rooms, uuid, call >>

\* teardown_circuit(): logs and returns Ok(())
TeardownCircuit(circuit_id) ==
    /\ last' = [op |-> "teardown_circuit", circuit_id |-> circuit_id,
                ret |-> Ok("unit")]
    /\ UNCHANGED << platform, signaling_client, is_connected, local_peer_id,
                    ws_stream, server_rooms, uuid, call >>

\* transport_capabilities() as a call: synchronous, takes no lock, reads platform
GetTransportCapabilities ==
    /\ last' = [op |-> "transport_capabilities",
                ret |-> TransportCapabilities(platform)]
    /\ UNCHANGED << platform, signaling_client, is_connected, local_peer_id,
                    ws_stream, server_rooms, uuid, call >>

\* the suspended method after receive_message returned
Finish(c, frame, received) ==
    CASE c.op = "discover_peers" ->
            LET sig == IF received.ok THEN DiscoverMatch(received.value) ELSE received
            IN  /\ last' = Returned(c, frame, sig, WrapSignaling(sig), << >>)
                /\ UNCHANGED uuid
      [] c.op = "get_swarm_entropy" ->
            LET sig == IF received.ok THEN EntropyMatch(received.value, c.request_id)
                       ELSE received
            IN  /\ last' = Returned(c, frame, sig, WrapSignaling(sig), << >>)
                /\ UNCHANGED uuid
      [] c.op = "build_onion_circuit" ->
            \E checks \in BOOLEAN :
                FinishBuild(c, frame,
                            IF received.ok THEN DiscoverMatch(received.value)
                            ELSE received,
                            checks)

\* receive_message reads the next frame of the stream; an ended stream gives None
Receive(frame) ==
    /\ call.op # "none"
    /\ ws_stream = "ended" => frame.kind = "End"
    /\ frame.kind \in SkippedKinds => call.skipped < MaxSkipped
    /\ LET step == ReceiveStep(frame)
       IN  /\ ws_stream' = IF frame.kind \in TerminalKinds THEN "ended" ELSE ws_stream
           /\ signaling_client' = IF step.closed
                                  THEN [signaling_client EXCEPT ![1].is_connected = FALSE]
                                  ELSE signaling_client
           /\ IF step.done
              THEN call' = [op |-> "none"] /\ Finish(call, frame, step.result)
              ELSE /\ call' = [call EXCEPT !.skipped = @ + 1]
                   /\ UNCHANGED << last, uuid >>
    /\ UNCHANGED << platform, is_connected, local_peer_id, server_rooms >>

(***************************************************************************)
(* NativeP2PTransport                                                      *)
(***************************************************************************)
NativePeers == {"peerA", "peerB"}

Multiaddrs == {"addr1", "addr2"}

\* the swarm events run() only logs
LoggedSwarmEvents == {"NewListenAddr", "Behaviour", "IncomingConnection",
                      "IncomingConnectionError", "Dialing", "OutgoingConnectionError"}

\* new(): an empty peer table; the swarm has no connection yet
NativeNew ==
    /\ native_connections = [p \in NativePeers |-> << >>]
    /\ native_connected_peers = << >>
    /\ native_last = [event |-> "new"]

\* the sequence without its i-th element
RemoveAt(seq, i) == SubSeq(seq, 1, i - 1) \o SubSeq(seq, i + 1, Len(seq))

\* `peers.entry(peer_id).or_default().push(addr)`
EntryPush(m, k, addr) ==
    [x \in DOMAIN m \cup {k} |->
        IF x = k THEN (IF k \in DOMAIN m THEN Append(m[k], addr) ELSE << addr >>)
        ELSE m[x]]

\* SwarmEvent::ConnectionEstablished: the swarm has one more connection to the
\* peer; the loop pushes its remote address onto the peer's entry
NativeConnectionEstablished(peer_id, addr) ==
    /\ Len(native_connections[peer_id]) < MaxConnections
    /\ native_connections' =
           [native_connections EXCEPT ![peer_id] = Append(@, addr)]
    /\ native_connected_peers' = EntryPush(native_connected_peers, peer_id, addr)
    /\ native_last' = [event |-> "ConnectionEstablished", peer_id |-> peer_id]

\* SwarmEvent::ConnectionClosed: one connection to the peer has closed; the loop
\* removes the peer's whole entry
NativeConnectionClosed(peer_id, i) ==
    /\ i \in 1..Len(native_connections[peer_id])
    /\ native_connections' =
           [native_connections EXCEPT ![peer_id] = RemoveAt(@, i)]
    /\ native_connected_peers' =
           [x \in DOMAIN native_connected_peers \ {peer_id} |->
               native_connected_peers[x]]
    /\ native_last' = [event |-> "ConnectionClosed", peer_id |-> peer_id]

\* any other swarm event: logged
NativeLoggedEvent(event) ==
    /\ native_last' = [event |-> event, peer_id |-> "none"]
    /\ UNCHANGED << native_connections, native_connected_peers >>

\* connected_peers(): the keys of the table
ConnectedPeers == DOMAIN native_connected_peers

\* is_connected(peer_id): contains_key
NativeIsConnected(peer_id) == peer_id \in DOMAIN native_connected_peers

(***************************************************************************)
(* Concurrent calls on one SwarmController                                 *)
(*                                                                         *)
(* Every method takes &self, so several tasks can be inside the controller *)
(* at once.  A step is what one task does between two points at which it   *)
(* can be suspended: an await on the network, or the acquisition of a lock *)
(* another task may hold.                                                  *)
(***************************************************************************)
Tasks == {"taskA", "taskB"}

\* the calls that go through `self.signaling_client.write().await.as_mut()`
ClientCalls == {"join_room", "discover_peers", "get_swarm_entropy"}

Idle == [pc |-> "idle", op |-> "none", request_id |-> 0, peer_id |-> "none"]

NoRequest == [task |-> "none", op |-> "none"]

TasksIdle ==
    /\ tasks = [t \in Tasks |-> Idle]
    /\ sig_lock = "free"
    /\ wire = NoRequest
    /\ task_last = [task |-> "none", op |-> "none"]

\* what a returned call leaves: sender is the task whose request was the last one
\* sent when the call read its response, "none" for a call that read no frame
TaskReturns(t, op, ret, sender) ==
    task_last' = [task |-> t, op |-> op, ret |-> ret, sender |-> sender]

\* connect(), line 84: stores local_peer_id, then awaits SignalingClient::connect
TaskConnectStart(t, peer_id) ==
    /\ tasks[t].pc = "idle"
    /\ local_peer_id' = Some(peer_id)
    /\ tasks' = [tasks EXCEPT ![t] = [pc |-> "connecting", op |-> "connect",
                                      request_id |-> 0, peer_id |-> peer_id]]
    /\ UNCHANGED << platform, signaling_client, is_connected, ws_stream,
                    server_rooms, uuid, call, last, sig_lock, wire, task_last >>

\* connect(), lines 87-88: the client's connect resolves; an error returns
TaskConnectResolved(t, net_ok) ==
    /\ tasks[t].pc = "connecting"
    /\ IF net_ok
       THEN /\ tasks' = [tasks EXCEPT ![t].pc = "storing"]
            /\ UNCHANGED task_last
       ELSE /\ tasks' = [tasks EXCEPT ![t] = Idle]
            /\ TaskReturns(t, "connect", WrapSignaling(Err("ConnectionFailed")), "none")
    /\ UNCHANGED << platform, signaling_client, is_connected, local_peer_id,
                    ws_stream, server_rooms, uuid, call, last, sig_lock, wire >>

\* connect(), line 90: takes the write lock and stores the new client; the
\* client held before is dropped with its stream
TaskConnectStore(t) ==
    /\ tasks[t].pc = "storing"
    /\ sig_lock = "free"
    /\ signaling_client' = Some([peer_id |-> tasks[t].peer_id, is_connected |-> TRUE])
    /\ ws_stream' = "open"
    /\ wire' = NoRequest
    /\ tasks' = [tasks EXCEPT ![t].pc = "flagging"]
    /\ UNCHANGED << platform, is_connected, local_peer_id, server_rooms, uuid,
                    call, last, sig_lock, task_last >>

\* connect(), line 91: sets is_connected and returns
TaskConnectFlag(t) ==
    /\ tasks[t].pc = "flagging"
    /\ is_connected' = TRUE
    /\ tasks' = [tasks EXCEPT ![t] = Idle]
    /\ TaskReturns(t, "connect", Ok("unit"), "none")
    /\ UNCHANGED << platform, signaling_client, local_peer_id, ws_stream,
                    server_rooms, uuid, call, last, sig_lock, wire >>

\* disconnect(), line 148: takes the write lock and takes the client out
TaskDisconnectTake(t) ==
    /\ tasks[t].pc = "idle"
    /\ sig_lock = "free"
    /\ signaling_client' = None
    /\ ws_stream' = "none"
    /\ wire' = NoRequest
    /\ tasks' = [tasks EXCEPT ![t] = [pc |-> "clearing", op |-> "disconnect",
                                      request_id |-> 0, peer_id |-> "none"]]
    /\ UNCHANGED << platform, is_connected, local_peer_id, server_rooms, uuid,
                    call, last, sig_lock, task_last >>

\* disconnect(), line 153: clears is_connected and returns
TaskDisconnectFlag(t) ==
    /\ tasks[t].pc = "clearing"
    /\ is_connected' = FALSE
    /\ tasks' = [tasks EXCEPT ![t] = Idle]
    /\ TaskReturns(t, "disconnect", Ok("unit"), "none")
    /\ UNCHANGED << platform, signaling_client, local_peer_id, ws_stream,
                    server_rooms, uuid, call, last, sig_lock, wire >>

\* faulty variant in which the guard is released before the client's method runs
\* (C33 fails under it)
TaskCallStartUnlocked(t, op) ==
    /\ tasks[t].pc = "idle"
    /\ sig_lock = "free"
    /\ IF signaling_client = None
       THEN /\ TaskReturns(t, op, Err("NotConnected"), "none")
            /\ UNCHANGED << tasks, sig_lock >>
       ELSE /\ tasks' = [tasks EXCEPT ![t] = [pc |-> "sending", op |-> op,
                                              request_id |-> 0, peer_id |-> "none"]]
            /\ UNCHANGED << task_last, sig_lock >>
    /\ UNCHANGED << platform, signaling_client, is_connected, local_peer_id,
                    ws_stream, server_rooms, uuid, call, last, wire >>

\* join_room(), discover_peers(), get_swarm_entropy(): take the write lock; with
\* no client the call returns NotConnected and the guard is dropped, else the
\* guard is kept for the client's method
TaskCallStart(t, op) ==
    /\ tasks[t].pc = "idle"
    /\ sig_lock = "free"
    /\ IF signaling_client = None
       THEN /\ TaskReturns(t, op, Err("NotConnected"), "none")
            /\ UNCHANGED << tasks, sig_lock >>
       ELSE /\ tasks' = [tasks EXCEPT ![t] = [pc |-> "sending", op |-> op,
                                              request_id |-> 0, peer_id |-> "none"]]
            /\ sig_lock' = t
            /\ UNCHANGED task_last
    /\ UNCHANGED << platform, signaling_client, is_connected, local_peer_id,
                    ws_stream, server_rooms, uuid, call, last, wire >>

\* the lock after a task's call ended: released if the task held it
Released(t) == IF sig_lock = t THEN "free" ELSE sig_lock

\* the client's method sends its request: join_room returns after the send, the
\* other two go on to receive_message; get_swarm_entropy draws its request_id
TaskSend(t, net_ok) ==
    /\ tasks[t].pc = "sending"
    /\ LET op == tasks[t].op
           draws == op = "get_swarm_entropy"
       IN  /\ draws => uuid < MaxUuid
           /\ uuid' = IF draws THEN uuid + 1 ELSE uuid
           /\ IF ~SendSucceeds(net_ok)
              THEN /\ tasks' = [tasks EXCEPT ![t] = Idle]
                   /\ sig_lock' = Released(t)
                   /\ TaskReturns(t, op, WrapSignaling(Err("SendFailed")), "none")
                   /\ UNCHANGED wire
              ELSE /\ wire' = [task |-> t, op |-> op]
                   /\ IF op = "join_room"
                      THEN /\ tasks' = [tasks EXCEPT ![t] = Idle]
                           /\ sig_lock' = Released(t)
                           /\ TaskReturns(t, op, Ok("unit"), "none")
                      ELSE /\ tasks' = [tasks EXCEPT ![t] =
                                            [pc |-> "receiving", op |-> op,
                                             request_id |-> IF draws THEN uuid + 1
                                                            ELSE 0,
                                             peer_id |-> "none"]]
                           /\ UNCHANGED << sig_lock, task_last >>
    /\ UNCHANGED << platform, signaling_client, is_connected, local_peer_id,
                    ws_stream, server_rooms, call, last >>

\* receive_message returns on the deciding frame it read; the method matches the
\* message and returns, and the guard is dropped
TaskReceive(t, frame) ==
    /\ tasks[t].pc = "receiving"
    /\ ws_stream # "none"
    /\ ws_stream = "ended" => frame.kind = "End"
    /\ LET step == ReceiveStep(frame)
           op == tasks[t].op
           sig == IF ~step.result.ok THEN step.result
                  ELSE IF op = "discover_peers" THEN DiscoverMatch(step.result.value)
                  ELSE EntropyMatch(step.result.value, tasks[t].request_id)
       IN  /\ ws_stream' = IF frame.kind \in TerminalKinds THEN "ended" ELSE ws_stream
           /\ signaling_client' =
                  IF step.closed /\ signaling_client # None
                  THEN [signaling_client EXCEPT ![1].is_connected = FALSE]
                  ELSE signaling_client
           /\ TaskReturns(t, op, WrapSignaling(sig), wire.task)
    /\ tasks' = [tasks EXCEPT ![t] = Idle]
    /\ sig_lock' = Released(t)
    /\ UNCHANGED << platform, is_connected, local_peer_id, server_rooms, uuid,
                    call, last, wire >>

(***************************************************************************)
(* Specifications                                                          *)
(***************************************************************************)
WsInit == \E n \in 0..MaxReconnectCfg : WsNew(n)

\* the instance the other specifications leave untouched
WsIdle == WsNew(MaxReconnectCfg)

OnionInit == OnionNew(MaxReconnectCfg)

OnionIdle == OnionNew(MaxReconnectCfg)

NativeIdle == NativeNew

WsOnly == UNCHANGED << onionVars, ctlVars, nativeVars, taskVars >>

TransportNext ==
    \/ WsOnly /\ WsConnect
    \/ WsOnly /\ WsDisconnect
    \/ WsOnly /\ WsReceive
    \/ WsOnly /\ \E s \in DOMAIN ws_sockets : WsOnOpen(s)
    \/ WsOnly /\ \E s \in DOMAIN ws_sockets, b \in BOOLEAN, d \in Payloads :
                     WsOnMessage(s, b, d)
    \/ WsOnly /\ \E s \in DOMAIN ws_sockets : WsOnError(s)
    \/ WsOnly /\ \E s \in DOMAIN ws_sockets : WsOnClose(s)
    \/ WsOnly /\ WsReconnectTask

CtlInit == \E p \in Platforms : SwarmControllerNew(p)

CtlIdle == SwarmControllerNew("WebAssembly")

TransportInit == WsInit /\ OnionIdle /\ CtlIdle /\ NativeIdle /\ TasksIdle

SpecTransport == TransportInit /\ [][TransportNext]_vars

OnionOnly == UNCHANGED << wsVars, ctlVars, nativeVars, taskVars >>

OnionNext ==
    \/ OnionOnly /\ OnionConnect
    \/ OnionOnly /\ \E hops \in HopLists : OnionBuildCircuit(hops)
    \/ OnionOnly /\ \E c \in 1..MaxCircuits, d \in Payloads :
                        OnionSendThroughCircuit(c, d)
    \/ OnionOnly /\ \E c \in 1..MaxCircuits : OnionReceiveFromCircuit(c)
    \/ OnionOnly /\ \E c \in 1..MaxCircuits : OnionTeardownCircuit(c)
    \/ OnionOnly /\ OnionDisconnect
    \/ OnionOnly /\ \E s \in OnionSockets : OnionOnOpen(s)
    \/ OnionOnly /\ \E s \in OnionSockets, f \in OnionInbound : OnionOnMessage(s, f)
    \/ OnionOnly /\ \E s \in OnionSockets : OnionOnError(s)
    \/ OnionOnly /\ \E s \in OnionSockets : OnionOnClose(s)

OnionTransportInit == OnionInit /\ WsIdle /\ CtlIdle /\ NativeIdle /\ TasksIdle

SpecOnion == OnionTransportInit /\ [][OnionNext]_vars

Init == CtlInit /\ WsIdle /\ OnionIdle /\ NativeIdle /\ TasksIdle

NativeOnly == UNCHANGED << wsVars, onionVars, ctlVars, taskVars >>

NativeNext ==
    \/ NativeOnly /\ \E p \in NativePeers, a \in Multiaddrs :
                         NativeConnectionEstablished(p, a)
    \/ NativeOnly /\ \E p \in NativePeers, i \in 1..MaxConnections :
                         NativeConnectionClosed(p, i)
    \/ NativeOnly /\ \E e \in LoggedSwarmEvents : NativeLoggedEvent(e)

TasksOnly == UNCHANGED << wsVars, onionVars, nativeVars >>

TasksNext ==
    \/ TasksOnly /\ \E t \in Tasks, id \in LocalPeerIds : TaskConnectStart(t, id)
    \/ TasksOnly /\ \E t \in Tasks, net_ok \in BOOLEAN : TaskConnectResolved(t, net_ok)
    \/ TasksOnly /\ \E t \in Tasks : TaskConnectStore(t)
    \/ TasksOnly /\ \E t \in Tasks : TaskConnectFlag(t)
    \/ TasksOnly /\ \E t \in Tasks : TaskDisconnectTake(t)
    \/ TasksOnly /\ \E t \in Tasks : TaskDisconnectFlag(t)
    \/ TasksOnly /\ \E t \in Tasks, op \in ClientCalls : TaskCallStart(t, op)
    \/ TasksOnly /\ \E t \in Tasks, net_ok \in BOOLEAN : TaskSend(t, net_ok)
    \/ TasksOnly /\ \E t \in Tasks, f \in DecidingFrames : TaskReceive(t, f)

TasksInit == CtlIdle /\ TasksIdle /\ WsIdle /\ OnionIdle /\ NativeIdle

\* one controller shared by the tasks
SpecTasks == TasksInit /\ [][TasksNext]_vars

NativeInit == NativeNew /\ WsIdle /\ OnionIdle /\ CtlIdle /\ TasksIdle

SpecNative == NativeInit /\ [][NativeNext]_vars

CtlOnly == UNCHANGED << wsVars, onionVars, nativeVars, taskVars >>

Next ==
    \/ CtlOnly /\ \E id \in LocalPeerIds, net_ok \in BOOLEAN : Connect(id, net_ok)
    \/ CtlOnly /\ Disconnect
    \/ CtlOnly /\ \E r \in Rooms, net_ok \in BOOLEAN : JoinRoom(r, net_ok)
    \/ CtlOnly /\ \E r \in Rooms, net_ok \in BOOLEAN : DiscoverPeers(r, net_ok)
    \/ CtlOnly /\ \E r \in Rooms, net_ok \in BOOLEAN : GetSwarmEntropy(r, net_ok)
    \/ CtlOnly /\ \E t \in Targets, hops \in HopArgs, net_ok \in BOOLEAN :
                      BuildOnionCircuit(t, hops[1], hops[2], net_ok)
    \/ CtlOnly /\ \E f \in ServerFrames : Receive(f)
    \/ CtlOnly /\ \E c \in 1..MaxUuid : SendThroughCircuit(c, "d1")
    \/ CtlOnly /\ \E c \in 1..MaxUuid : ReceiveFromCircuit(c)
    \/ CtlOnly /\ \E c \in 1..MaxUuid : TeardownCircuit(c)
    \/ CtlOnly /\ GetTransportCapabilities

Spec == Init /\ [][Next]_vars

\* the stream yields a deciding frame to the suspended method
Deliver == CtlOnly /\ \E f \in DecidingFrames : Receive(f)

\* the controller with a stream that does not withhold deciding frames for ever
SpecLive == Init /\ [][Next]_vars /\ WF_vars(Deliver)

(***************************************************************************)
(* Properties of SignalingClient and SwarmController, checked under Spec   *)
(***************************************************************************)
\* the last method returned after reading an EntropyResponse
EntropyAnswered ==
    /\ last.op = "get_swarm_entropy"
    /\ last.frame.kind = "Text"
    /\ last.frame.msg.type = "EntropyResponse"

\* C1: get_swarm_entropy answered by an EntropyResponse whose request_id is not
\* the one it sent returns UnexpectedMessage, and no entropy bytes.
C1_MismatchRejected ==
    (EntropyAnswered /\ last.frame.msg.request_id # last.request_id)
        => /\ last.sig = Err("UnexpectedMessage")
           /\ ~last.ret.ok

\* a 32-byte response carrying the identifier of an earlier request is rejected
C1_Witness ==
    /\ EntropyAnswered
    /\ last.sent = << [type |-> "EntropyRequest", room_id |-> "test-room",
                       request_id |-> 2] >>
    /\ last.frame.msg.request_id = 1
    /\ Len(last.frame.msg.entropy) = 32
    /\ last.sig = Err("UnexpectedMessage")

\* C2: an EntropyResponse with the sent request_id is rejected with InvalidEntropy
\* when its payload is not exactly 32 bytes long; with a 32-byte payload the call
\* returns exactly those bytes.
C2_EntropyLength ==
    (EntropyAnswered /\ last.frame.msg.request_id = last.request_id)
        => IF Len(last.frame.msg.entropy) = 32
           THEN /\ last.sig = Ok(last.frame.msg.entropy)
                /\ last.ret = Ok(last.frame.msg.entropy)
           ELSE /\ last.sig = Err("InvalidEntropy")
                /\ ~last.ret.ok

\* the server echoed the identifier with 32 bytes, after two skipped frames
C2_Witness ==
    /\ EntropyAnswered
    /\ last.frame.msg.request_id = last.request_id
    /\ Len(last.frame.msg.entropy) = 32
    /\ last.skipped = MaxSkipped
    /\ last.ret.ok
    /\ last.ret.value = last.frame.msg.entropy

\* C3: after a successful join_room(r), discover_peers(r) answered with a Peers
\* message never returns UnexpectedMessage: it returns the list of that message.
C3_PeersAccepted ==
    (/\ last.op = "discover_peers"
     /\ last.room_id \in server_rooms
     /\ last.frame.kind = "Text"
     /\ last.frame.msg.type = "Peers")
        => /\ last.sig = Ok(last.frame.msg.peers)
           /\ last.ret = Ok(last.frame.msg.peers)

\* room "test-room" joined, then discovered with the single peer p1
C3_Witness ==
    /\ last.op = "discover_peers"
    /\ last.room_id = "test-room"
    /\ "test-room" \in server_rooms
    /\ last.ret.ok
    /\ Len(last.ret.value) = 1
    /\ last.ret.value[1].peer_id = "p1"

\* hop arguments outside the bounds of the platform
OutOfPlatformBounds(min_hops, max_hops) ==
    \/ min_hops < (IF platform = "Native" THEN 2 ELSE 3)
    \/ max_hops > (IF platform = "Native" THEN 8 ELSE 6)

\* C4: build_onion_circuit with min_hops below the platform's minimum or max_hops
\* above its maximum fails with InvalidCircuitConfig, connected or not, and sends
\* no Discover: it never reaches the await of discovery.
C4_InvalidConfigRejected ==
    /\ (last.op = "build_onion_circuit"
        /\ OutOfPlatformBounds(last.min_hops, last.max_hops))
           => /\ last.ret = Err("InvalidCircuitConfig")
              /\ last.sent = << >>
              /\ last.sig = NotInvoked
    /\ call.op = "build_onion_circuit"
           => ~OutOfPlatformBounds(call.min_hops, call.max_hops)

\* native bounds 2..8, min_hops = 1 and max_hops = 5, on a connected controller
C4_Witness ==
    /\ platform = "Native"
    /\ signaling_client # None
    /\ ws_stream = "open"
    /\ last.op = "build_onion_circuit"
    /\ last.min_hops = 1
    /\ last.max_hops = 5
    /\ last.ret = Err("InvalidCircuitConfig")

\* C5: with hop arguments inside the platform bounds and discovery successful,
\* build_onion_circuit fails with NotEnoughPeers whenever fewer than max_hops - 1
\* peers were discovered, and builds no circuit.
C5_NotEnoughPeers ==
    (/\ last.op = "build_onion_circuit"
     /\ ~OutOfPlatformBounds(last.min_hops, last.max_hops)
     /\ last.sig.ok
     /\ Len(last.sig.value) < last.max_hops - 1)
        => /\ last.ret = Err("NotEnoughPeers")
           /\ last.path = << >>

\* native platform, 2 peers discovered, min_hops = 2 and max_hops = 5
C5_Witness ==
    /\ platform = "Native"
    /\ last.op = "build_onion_circuit"
    /\ last.min_hops = 2
    /\ last.max_hops = 5
    /\ last.sig.ok
    /\ Len(last.sig.value) = 2
    /\ last.ret = Err("NotEnoughPeers")

\* C6: every circuit build_onion_circuit constructs has a hop count within the
\* platform's [min_hops, max_hops].  The code compares min_hops and max_hops with
\* the platform one by one, never with each other: min_hops = 3 with max_hops = 1
\* passes and gives a 1-hop circuit.
C6_HopCountInBounds ==
    (last.op = "build_onion_circuit" /\ last.ret.ok)
        => /\ Len(last.path) >= (IF platform = "Native" THEN 2 ELSE 3)
           /\ Len(last.path) <= (IF platform = "Native" THEN 8 ELSE 6)

(***************************************************************************)
(* Properties of WebSocketTransport, checked under SpecTransport           *)
(***************************************************************************)
\* C7, as the code has it: the counter never exceeds max_reconnect_attempts, and
\* neither does the number of attempts scheduled since the counter was last
\* reset, by an open event or by disconnect().
C7_ReconnectBounded ==
    /\ ws_reconnect_attempts <= ws_max_reconnect
    /\ ws_scheduled_reset <= ws_max_reconnect

\* a close event at the cap: more sockets have closed than attempts were scheduled
C7_Witness ==
    /\ ws_last = "onclose"
    /\ ws_max_reconnect > 0
    /\ ws_reconnect_attempts = ws_max_reconnect
    /\ ws_scheduled_open = ws_max_reconnect
    /\ Cardinality({ i \in DOMAIN ws_sockets : ws_sockets[i] = "closed" })
          > ws_max_reconnect

\* C7, as stated: the counter is at most max_reconnect_attempts and the number of
\* attempts scheduled since the last successful connection (open event) never
\* exceeds max_reconnect_attempts.
C7_SinceLastOpen ==
    /\ ws_reconnect_attempts <= ws_max_reconnect
    /\ ws_scheduled_open <= ws_max_reconnect

\* C8: an open event resets the reconnection counter to 0, so the close after
\* it has the whole budget of max_reconnect_attempts again.
C8_OpenResetsCounter ==
    ws_last = "onopen" => ws_reconnect_attempts = 0

\* an open event on a socket connected after an earlier one closed and had an
\* attempt scheduled
C8_Witness ==
    /\ ws_last = "onopen"
    /\ ws_timers > 0
    /\ \E i \in DOMAIN ws_sockets : ws_sockets[i] = "closed"
    /\ ws_websocket # 0
    /\ ws_sockets[ws_websocket] = "open"

\* the transport at rest after a close: no socket alive, no task pending
WsAtRestAfterClose ==
    /\ ws_last \in {"onclose", "reconnect_task"}
    /\ ws_sockets # << >>
    /\ \A i \in DOMAIN ws_sockets : ws_sockets[i] = "closed"
    /\ ws_timers = 0
    /\ ws_state = "Disconnected"

\* C9: after a close event with max_reconnect_attempts = N and no reconnection
\* succeeding, exactly N attempts have been scheduled once the transport is at
\* rest.  The code schedules one task per close event and the task opens no
\* socket, so one close gives one attempt.
C9_ExactlyNAttempts ==
    WsAtRestAfterClose => ws_scheduled_open = ws_max_reconnect

(***************************************************************************)
(* Properties of BrowserOnionTransport, checked under SpecOnion            *)
(***************************************************************************)
\* C10: after a close or error event the circuits and the inbound queue are
\* empty and the state is Disconnected (close) or Error (error).  The handlers
\* only assign the state.
C10_EventClearsState ==
    onion_last.op \in {"onclose", "onerror"}
        => /\ DOMAIN onion_circuits = {}
           /\ onion_message_queue = << >>
           /\ onion_state = (IF onion_last.op = "onclose" THEN "Disconnected"
                             ELSE "Error")

\* the map m without the key k, written out
WithoutKey(m, k) ==
    /\ DOMAIN onion_circuits' = DOMAIN m \ {k}
    /\ \A x \in DOMAIN m \ {k} : onion_circuits'[x] = m[x]

\* C11, as the code has it: teardown_circuit(c) removes c and nothing else; a second
\* teardown_circuit(c) right after it returns (success, or the error of the send:
\* no socket held, or the socket still connecting) and leaves the map as the first
\* left it, c absent and every other circuit untouched.
C11_TeardownIdempotent ==
    [][onion_last'.op = "teardown_circuit"
          => /\ WithoutKey(onion_circuits, onion_last'.circuit_id)
             /\ onion_last'.again
                   => /\ onion_last'.circuit_id \notin DOMAIN onion_circuits
                      /\ DOMAIN onion_circuits' = DOMAIN onion_circuits
                      /\ \/ onion_last'.ok
                         \/ onion_last'.err \in {"Not connected to relay",
                                                 "InvalidStateError"}]_vars

\* a second teardown of the same circuit on an open socket, another circuit held
C11_Witness ==
    /\ onion_last.op = "teardown_circuit"
    /\ onion_last.again
    /\ onion_last.ok
    /\ onion_last.sent = << [type |-> "TearDownCircuit",
                             circuit_id |-> onion_last.circuit_id] >>
    /\ DOMAIN onion_circuits # {}
    /\ onion_last.circuit_id \notin DOMAIN onion_circuits

\* C11, as stated: the second teardown_circuit(c) returns success or a 'not found'
\* error, and leaves the map as the first left it.
C11_SuccessOrNotFound ==
    (onion_last.op = "teardown_circuit" /\ onion_last.again)
        => /\ onion_last.circuit_id \notin DOMAIN onion_circuits
           /\ \/ onion_last.ok
              \/ onion_last.err = "Circuit not found"

\* the ForwardData frame of the last send_through_circuit call
ForwardDataOfLast ==
    [type |-> "ForwardData", circuit_id |-> onion_last.circuit_id,
     data |-> onion_last.data]

FieldCount(str) == Cardinality({ i \in 1..Len(str) : str[i] = "," }) + 1

\* a descriptor that is a string but not of exactly three fields
WrongFieldCount(hop_js) == hop_js.is_string /\ FieldCount(hop_js.str) # 3

\* a descriptor the loop of build_circuit gets past
WellFormedHop(hop_js) ==
    /\ hop_js.is_string
    /\ FieldCount(hop_js.str) = 3
    /\ B64Decode(Split(hop_js.str)[3]).ok

FormatError == "Each hop must be in format: relay_url,peer_id,public_key"

\* the last call was build_circuit with a descriptor of the wrong field count
BuiltWithWrongFieldCount ==
    /\ onion_last.op = "build_circuit"
    /\ \E i \in 1..Len(onion_last.hops) : WrongFieldCount(onion_last.hops[i])

\* C13, as the code has it: a hop list with a descriptor of other than three fields
\* is rejected before anything is sent or stored, wherever the descriptor stands;
\* the error is that of the first invalid descriptor of the list: the format error
\* when every descriptor before the malformed one is well formed.
C13_MalformedRejected ==
    BuiltWithWrongFieldCount
        => /\ ~onion_last.ok
           /\ onion_last.sent = << >>
           /\ onion_uuid \notin DOMAIN onion_circuits
           /\ LET i == CHOOSE k \in 1..Len(onion_last.hops) :
                          /\ WrongFieldCount(onion_last.hops[k])
                          /\ \A j \in 1..(k - 1) : ~WrongFieldCount(onion_last.hops[j])
              IN  IF \A j \in 1..(i - 1) : WellFormedHop(onion_last.hops[j])
                  THEN onion_last.err = FormatError
                  ELSE onion_last.err \in {"Invalid hop format", "Invalid public key"}

\* a four-field descriptor in second place, on an open socket: format error
C13_Witness ==
    /\ onion_last.op = "build_circuit"
    /\ onion_last.hops = << HopRelayA, HopFourFields >>
    /\ onion_websocket = "open"
    /\ onion_last.err = FormatError
    /\ onion_last.sent = << >>

\* C13, as stated: any hop list with a descriptor of other than three fields is
\* rejected with the format error before anything is sent, whatever its position.
C13_AlwaysFormatError ==
    BuiltWithWrongFieldCount
        => /\ ~onion_last.ok
           /\ onion_last.sent = << >>
           /\ onion_last.err = FormatError

\* C16: the circuits held by one transport have distinct identifiers: every map
\* entry is keyed by the circuit_id of its own circuit, and build_circuit never
\* returns an identifier that was held when it was called.
C16_CircuitIdsUnique ==
    [][/\ \A k \in DOMAIN onion_circuits' : onion_circuits'[k].circuit_id = k
       /\ (onion_last'.op = "build_circuit" /\ onion_last'.ok)
             => onion_last'.value \notin DOMAIN onion_circuits]_vars

\* a second circuit built while the first is still held
C16_Witness ==
    /\ onion_last.op = "build_circuit"
    /\ onion_last.ok
    /\ onion_last.value = 2
    /\ DOMAIN onion_circuits = {1, 2}
    /\ onion_circuits[1].circuit_id # onion_circuits[2].circuit_id

\* C17: receive_from_circuit(c) pops and returns the oldest queued payload whatever
\* c is, and returns nothing on an empty queue; DataReceived payloads join the
\* queue at the back, so each is returned once and in arrival order.
C17_ReceiveFifo ==
    [][/\ onion_last'.op = "receive_from_circuit"
             => IF onion_message_queue = << >>
                THEN /\ onion_last'.value = "None"
                     /\ onion_message_queue' = << >>
                ELSE /\ onion_last'.value = Head(onion_message_queue)
                     /\ onion_message_queue' = Tail(onion_message_queue)
       /\ onion_last'.op = "onmessage"
             => \/ onion_message_queue' = onion_message_queue
                \/ \E d \in Payloads :
                       onion_message_queue' = Append(onion_message_queue, d)]_vars

\* d1 arrived before d2; with no circuit held, receive_from_circuit(2) returns d1
\* and leaves d2 queued
C17_Witness ==
    /\ onion_last.op = "receive_from_circuit"
    /\ onion_last.circuit_id = 2
    /\ DOMAIN onion_circuits = {}
    /\ onion_last.value = "d1"
    /\ onion_message_queue = << "d2" >>

(***************************************************************************)
(* Further properties of SwarmController, checked under Spec               *)
(***************************************************************************)
ClientMethods == {"join_room", "discover_peers", "get_swarm_entropy"}

\* C14: join_room, discover_peers and get_swarm_entropy fail with NotConnected and
\* send nothing whenever the controller holds no signaling client (before any
\* successful connect, after any disconnect); with a client they call its method
\* and return its result.
C14_NotConnected ==
    /\ (last.op \in ClientMethods /\ signaling_client = None)
           => /\ last.ret = Err("NotConnected")
              /\ last.sent = << >>
              /\ last.sig = NotInvoked
    /\ (last.op \in ClientMethods /\ signaling_client # None)
           => /\ last.sig # NotInvoked
              /\ last.ret.ok = last.sig.ok
              /\ last.ret.ok => last.ret.value = last.sig.value
              /\ ~last.ret.ok => last.ret.err = "SignalingError"
    /\ call.op \in ClientMethods => signaling_client # None

\* discover_peers after connect, get_swarm_entropy and disconnect: an identifier
\* was drawn, so a client was held, and none is held now
C14_Witness ==
    /\ last.op = "discover_peers"
    /\ uuid > 0
    /\ signaling_client = None
    /\ last.ret = Err("NotConnected")

\* C15: a new controller reports is_connected() = false; after a successful
\* connect(url, id) it reports true, holds a client and local_peer_id() = id; after
\* disconnect() it reports false and holds no client.
C15_ConnectionLifecycle ==
    /\ last.op = "new" => ~is_connected /\ signaling_client = None
    /\ (last.op = "connect" /\ last.ret.ok)
           => /\ is_connected
              /\ signaling_client # None
              /\ local_peer_id = Some(signaling_client[1].peer_id)
              /\ signaling_client[1].peer_id \in LocalPeerIds
    /\ last.op = "disconnect" => ~is_connected /\ signaling_client = None

\* disconnect() after a successful connect("test-peer") and a joined room
C15_Witness ==
    /\ last.op = "disconnect"
    /\ local_peer_id = Some("test-peer")
    /\ uuid > 0
    /\ ~is_connected
    /\ signaling_client = None

\* C18: the controller's send_through_circuit forwards to the transport, so it
\* fails for a circuit the transport does not hold.  The controller's method is a
\* placeholder: it calls no transport and returns Ok(()) for any circuit.
C18_ForwardsToTransport ==
    (last.op = "send_through_circuit"
     /\ last.circuit_id \notin DOMAIN onion_circuits)
        => ~last.ret.ok

\* C19: discover_peers sends one Discover, skips binary, ping, pong and raw
\* frames, and returns on the first text message: the peer list for Peers,
\* ServerError for Error, UnexpectedMessage for any other message type.
C19_DiscoverOutcome ==
    last.op = "discover_peers"
        => /\ last.frame.kind \notin {"Binary", "Ping", "Pong", "Frame"}
           /\ last.frame.kind # "none"
                 => last.sent = << [type |-> "Discover", room_id |-> last.room_id] >>
           /\ last.frame.kind = "Text"
                 => last.sig =
                       CASE last.frame.msg.type = "Peers" -> Ok(last.frame.msg.peers)
                         [] last.frame.msg.type = "Error" -> Err("ServerError")
                         [] last.frame.msg.type = "unparsable" ->
                               Err("DeserializationFailed")
                         [] OTHER -> Err("UnexpectedMessage")

\* two frames skipped, then an EntropyResponse: UnexpectedMessage
C19_Witness ==
    /\ last.op = "discover_peers"
    /\ last.skipped = MaxSkipped
    /\ last.frame.kind = "Text"
    /\ last.frame.msg.type = "EntropyResponse"
    /\ last.sig = Err("UnexpectedMessage")

\* C20: get_swarm_entropy keeps receiving until the EntropyResponse with the sent
\* request_id arrives: it never returns on another message.  The code returns on
\* the first text message whatever it is.
C20_WaitsForMatchingResponse ==
    (/\ last.op = "get_swarm_entropy"
     /\ last.frame.kind = "Text"
     /\ last.frame.msg.type \notin {"Error", "unparsable"})
        => /\ last.frame.msg.type = "EntropyResponse"
           /\ last.frame.msg.request_id = last.request_id

(***************************************************************************)
(* Locks, tables and capabilities                                           *)
(***************************************************************************)
\* C21: a method suspended waiting for a network response holds none of the
\* controller's locks, so disconnect() is never blocked behind a round trip.
\* The code keeps the signaling_client write lock for the whole round trip.
C21_NoLockAcrossWait ==
    call.op # "none" => \A l \in DOMAIN LockHolders : LockHolders[l] = {}

C23_CapabilitiesFixed ==
    [][/\ platform' = platform
       /\ last'.op = "transport_capabilities"
             => /\ last'.ret.min_hops <= last'.ret.max_hops
                /\ IF platform = "Native"
                   THEN /\ last'.ret.min_hops = 2
                        /\ last'.ret.max_hops = 8
                        /\ last'.ret.supports_direct_p2p
                        /\ last'.ret.supports_nat_traversal
                   ELSE /\ platform = "WebAssembly"
                        /\ last'.ret.min_hops = 3
                        /\ last'.ret.max_hops = 6
                        /\ last'.ret.supports_relay
                        /\ ~last'.ret.supports_direct_p2p]_vars

\* the bounds are asked for on WebAssembly after a connect and a circuit build
C23_Witness ==
    /\ last.op = "transport_capabilities"
    /\ platform = "WebAssembly"
    /\ is_connected
    /\ uuid > 0

\* C24: a circuit is in the map only from the build_circuit that drew its
\* identifier until a teardown or a disconnect: an entry appears only by
\* build_circuit, an identifier that left the map never returns, disconnect()
\* leaves the map and the queue empty and the state Disconnected, and
\* send_through_circuit fails for every identifier drawn before that is not held.
C24_CircuitLifetime ==
    [][/\ onion_last'.op = "disconnect"
             => /\ onion_circuits' = << >>
                /\ onion_message_queue' = << >>
                /\ onion_state' = "Disconnected"
       /\ \A c \in DOMAIN onion_circuits' \ DOMAIN onion_circuits :
              /\ onion_last'.op = "build_circuit"
              /\ c > onion_uuid
       /\ (/\ onion_last'.op = "send_through_circuit"
           /\ onion_last'.circuit_id \in (1..onion_uuid) \ DOMAIN onion_circuits)
             => /\ ~onion_last'.ok
                /\ onion_last'.err = "Circuit not found"
                /\ onion_last'.sent = << >>]_vars

\* disconnect() found two circuits and two queued payloads and dropped them
C24_Witness ==
    /\ onion_last.op = "disconnect"
    /\ onion_last.circuits = {1, 2}
    /\ onion_last.queued = 2
    /\ onion_circuits = << >>
    /\ onion_message_queue = << >>

C26_TargetOnlyFinalHop ==
    (last.op = "build_onion_circuit" /\ last.ret.ok)
        => /\ Cardinality({ i \in 1..Len(last.sig.value) :
                               last.sig.value[i].peer_id # last.target_peer })
                  >= last.max_hops - 1
           /\ \A i \in 1..(Len(last.path) - 1) :
                  last.path[i].peer_id # last.target_peer

\* the last call was build_circuit and every descriptor given was well formed
BuiltWellFormed ==
    /\ onion_last.op = "build_circuit"
    /\ \A i \in 1..Len(onion_last.hops) : WellFormedHop(onion_last.hops[i])

\* the OnionHop a well-formed descriptor stands for
HopOf(hop_js) ==
    [relay_url |-> Split(hop_js.str)[1], peer_id |-> Split(hop_js.str)[2],
     public_key |-> B64Decode(Split(hop_js.str)[3]).bytes]

\* the BuildCircuit message for the circuit stored last
BuildCircuitOfLast ==
    [type |-> "BuildCircuit", circuit_id |-> onion_uuid,
     hops |-> [i \in 1..Len(onion_last.hops) |-> HopOf(onion_last.hops[i])]]

\* C27, as the code has it: build_circuit with well-formed descriptors stores an
\* OnionCircuit under the identifier just drawn, hops in the order given and no
\* keys, and then hands one BuildCircuit with that identifier and those hops to
\* the socket: sent and the identifier returned if the socket is open; an error
\* returned, the circuit staying stored, if no socket is held or the socket is
\* connecting; dropped and the identifier returned if the socket is closing or
\* closed.
C27_BuildStoresThenSends ==
    BuiltWellFormed
        => /\ onion_uuid \in DOMAIN onion_circuits
           /\ onion_circuits[onion_uuid] =
                  [circuit_id |-> onion_uuid, hops |-> BuildCircuitOfLast.hops,
                   encryption_keys |-> << >>]
           /\ CASE onion_websocket = "open" ->
                        /\ onion_last.ok
                        /\ onion_last.value = onion_uuid
                        /\ onion_last.sent = << BuildCircuitOfLast >>
                 [] onion_websocket = "None" ->
                        /\ ~onion_last.ok
                        /\ onion_last.err = "Not connected to relay"
                        /\ onion_last.sent = << >>
                 [] onion_websocket = "connecting" ->
                        /\ ~onion_last.ok
                        /\ onion_last.err = "InvalidStateError"
                        /\ onion_last.sent = << >>
                 [] OTHER ->
                        /\ onion_last.ok
                        /\ onion_last.value = onion_uuid
                        /\ onion_last.sent = << >>

\* relay A then relay B on an open socket: stored and sent in that order
C27_Witness ==
    /\ onion_last.op = "build_circuit"
    /\ onion_last.hops = << HopRelayA, HopRelayB >>
    /\ onion_websocket = "open"
    /\ onion_last.ok
    /\ Len(onion_last.sent) = 1
    /\ onion_last.sent[1].hops[1].relay_url = << "r", "A" >>
    /\ onion_last.sent[1].hops[2].relay_url = << "r", "B" >>
    /\ onion_circuits[onion_uuid].hops = onion_last.sent[1].hops

\* C27, as stated: build_circuit with well-formed descriptors stores the circuit,
\* sends exactly one BuildCircuit with the same identifier and hops, and returns
\* the identifier.
C27_AlwaysSendsAndReturnsId ==
    BuiltWellFormed
        => /\ onion_uuid \in DOMAIN onion_circuits
           /\ onion_last.ok
           /\ onion_last.value = onion_uuid
           /\ onion_last.sent = << BuildCircuitOfLast >>

(***************************************************************************)
(* Reconnection of WebSocketTransport, checked under SpecTransport          *)
(***************************************************************************)
\* C28: every close event sets the state to Disconnected; with the counter below
\* max_reconnect_attempts it spawns exactly one reconnection task and adds one to
\* the counter, with the counter at max_reconnect_attempts it spawns nothing and
\* leaves the counter as it is.
C28_CloseSchedulesOne ==
    [][ws_last' = "onclose"
          => /\ ws_state' = "Disconnected"
             /\ IF ws_reconnect_attempts < ws_max_reconnect
                THEN /\ ws_timers' = ws_timers + 1
                     /\ ws_reconnect_attempts' = ws_reconnect_attempts + 1
                ELSE /\ ws_reconnect_attempts = ws_max_reconnect
                     /\ ws_timers' = ws_timers
                     /\ ws_reconnect_attempts' = ws_reconnect_attempts]_vars

\* a close event with the counter at a maximum of 2, the tasks of the closes
\* before it have run: nothing was spawned
C28_Witness ==
    /\ ws_last = "onclose"
    /\ ws_max_reconnect = 2
    /\ ws_reconnect_attempts = 2
    /\ ws_timers = 0
    /\ ws_state = "Disconnected"

\* C29: the close event of a socket that disconnect() closed spawns no
\* reconnection task and leaves the counter at the 0 disconnect() set.  The
\* handler stays installed on the socket and treats every close alike.
C29_DisconnectCloseIsQuiet ==
    [][(/\ ws_last' = "onclose"
        /\ \E s \in DOMAIN ws_sockets :
               ws_sockets[s] = "closing" /\ ws_sockets'[s] = "closed")
          => /\ ws_timers' = ws_timers
             /\ ws_reconnect_attempts' = ws_reconnect_attempts]_vars

(***************************************************************************)
(* Termination of the receive loop, checked under SpecLive                  *)
(***************************************************************************)
\* a discover_peers or get_swarm_entropy call is suspended in receive_message
Awaiting == call.op \in {"discover_peers", "get_swarm_entropy"}

\* C30: a suspended discover_peers or get_swarm_entropy call returns, with a
\* result or an error, once the stream yields a text frame, a close frame, its end
\* or a transport error, and it returns in no step that reads another frame.
C30_ReturnsOnDecidingFrame ==
    /\ Awaiting ~> (call.op = "none")
    /\ [][(Awaiting /\ call'.op = "none")
             => /\ last'.op = call.op
                /\ last'.frame.kind \in {"Text", "Close", "End", "Err"}
                /\ last'.ret.ok \/ last'.ret.err = "SignalingError"]_vars

\* get_swarm_entropy skipped two control frames and returned on a transport error
C30_Witness ==
    /\ last.op = "get_swarm_entropy"
    /\ last.skipped = MaxSkipped
    /\ last.frame.kind = "Err"
    /\ last.ret = [ok |-> FALSE, value |-> "ReceiveFailed", err |-> "SignalingError"]

(***************************************************************************)
(* Failure paths                                                            *)
(***************************************************************************)
\* C34: a connect() that fails to open the signaling connection leaves the held
\* client, the is_connected flag and local_peer_id as they were.  The code stores
\* local_peer_id before it tries to connect.
C34_FailedConnectChangesNothing ==
    [][(last'.op = "connect" /\ ~last'.ret.ok)
          => /\ last'.ret.err = "SignalingError"
             /\ signaling_client' = signaling_client
             /\ is_connected' = is_connected
             /\ local_peer_id' = local_peer_id]_vars

\* C35: a build_circuit call that returns an error leaves the circuit map as it
\* was.  The code stores the circuit before it sends, so a failed send leaves it.
C35_FailedBuildStoresNothing ==
    [][(onion_last'.op = "build_circuit" /\ ~onion_last'.ok)
          => onion_circuits' = onion_circuits]_vars

\* C36: in state Disconnected, Connecting or Error the calls build_circuit,
\* send_through_circuit and teardown_circuit fail and put nothing on the socket.
\* The code tests whether a socket is held, not the state, so after a close or
\* error event the call returns Ok.
C36_SendsOnlyWhenConnected ==
    (/\ onion_last.op \in {"build_circuit", "send_through_circuit", "teardown_circuit"}
     /\ onion_state \in {"Disconnected", "Connecting", "Error"})
        => ~onion_last.ok /\ onion_last.sent = << >>

(***************************************************************************)
(* The signaling client's connection flag                                  *)
(***************************************************************************)
\* the methods of the client that call receive_message
ReceivingCalls == {"discover_peers", "get_swarm_entropy", "build_onion_circuit"}

ClientFlag(client) == client # None /\ client[1].is_connected

\* C38: the client's flag is true after a successful connect; it falls only in a
\* receive that read a Close frame or the end of the stream, that receive returns
\* ConnectionClosed, and the flag of that client never rises again (only a new
\* client made by a successful connect has it set); a receive that returns
\* ReceiveFailed or DeserializationFailed leaves the client as it was.
C38_FlagFollowsReceive ==
    [][/\ (last'.op = "connect" /\ last'.ret.ok) => ClientFlag(signaling_client')
       /\ (ClientFlag(signaling_client) /\ signaling_client' # None
              /\ ~ClientFlag(signaling_client'))
             => /\ last'.op \in ReceivingCalls
                /\ last'.frame.kind \in {"Close", "End"}
                /\ last'.sig.err = "ConnectionClosed"
       /\ (last'.op \in ReceivingCalls /\ last'.frame.kind \in {"Close", "End"})
             => /\ last'.sig.err = "ConnectionClosed"
                /\ signaling_client' # None
                /\ ~ClientFlag(signaling_client')
       /\ (signaling_client # None /\ ~ClientFlag(signaling_client)
              /\ ClientFlag(signaling_client'))
             => last'.op = "connect" /\ last'.ret.ok
       /\ (last'.op \in ReceivingCalls
              /\ last'.sig.err \in {"ReceiveFailed", "DeserializationFailed"})
             => signaling_client' = signaling_client]_vars

\* a receive has read a Close frame and the client held has its flag cleared
C38_Witness ==
    /\ last.op = "discover_peers"
    /\ last.frame.kind = "Close"
    /\ last.sig.err = "ConnectionClosed"
    /\ signaling_client # None
    /\ ~signaling_client[1].is_connected

(***************************************************************************)
(* Hop arithmetic                                                          *)
(***************************************************************************)
\* C39: whenever build_onion_circuit reaches `max_hops - 1` (the bounds test
\* passed and discovery returned peers), max_hops is at least 1, so the
\* subtraction neither traps nor wraps.  The bounds test has no lower bound
\* for max_hops, so 0 gets through.
C39_NoUnderflow ==
    (last.op = "build_onion_circuit" /\ last.sig.ok)
        => last.max_hops >= 1 /\ last.ret.err # "panic"

(***************************************************************************)
(* Frame conditions of the relay transport                                 *)
(***************************************************************************)
\* the inbound messages the handler only logs
LoggedTypes == {"CircuitBuilt", "Error", "BuildCircuit", "ForwardData",
                "unparsable", "binary"}

\* C40: build_circuit, send_through_circuit and teardown_circuit leave the inbound
\* queue unchanged; receive_from_circuit leaves the circuit map and the state
\* unchanged; an inbound message that is only logged leaves map, state and queue
\* unchanged; DataReceived changes only the queue; CircuitTornDown and
\* TearDownCircuit remove only the named circuit.
C40_FrameConditions ==
    [][/\ onion_last'.op \in {"build_circuit", "send_through_circuit", "teardown_circuit"}
             => onion_message_queue' = onion_message_queue
       /\ onion_last'.op = "receive_from_circuit"
             => onion_circuits' = onion_circuits /\ onion_state' = onion_state
       /\ (onion_last'.op = "onmessage" /\ onion_last'.type \in LoggedTypes)
             => /\ onion_circuits' = onion_circuits
                /\ onion_state' = onion_state
                /\ onion_message_queue' = onion_message_queue
       /\ (onion_last'.op = "onmessage" /\ onion_last'.type = "DataReceived")
             => /\ onion_circuits' = onion_circuits
                /\ onion_state' = onion_state
                /\ Len(onion_message_queue') = Len(onion_message_queue) + 1
       /\ (onion_last'.op = "onmessage"
              /\ onion_last'.type \in {"CircuitTornDown", "TearDownCircuit"})
             => /\ WithoutKey(onion_circuits, onion_last'.circuit_id)
                /\ onion_state' = onion_state
                /\ onion_message_queue' = onion_message_queue]_vars

\* an Error message has arrived while a circuit is stored
C40_Witness ==
    /\ onion_last.op = "onmessage"
    /\ onion_last.type = "Error"
    /\ onion_circuits # << >>
    /\ onion_message_queue # << >>

(***************************************************************************)
(* Events of a socket that is no longer held                               *)
(***************************************************************************)
\* C37: once disconnect() has closed a socket and connect() has made a new one,
\* a late event of the closed socket changes neither the state nor the
\* reconnect counter.  The handlers installed on the old socket share the
\* state and the counter with the new one, so its close event sets
\* Disconnected and counts an attempt.
C37_StaleEventsIgnored ==
    [][(/\ ws_last' \in {"onopen", "onclose", "onerror"}
        /\ ws_websocket # 0
        /\ \E s \in DOMAIN ws_sockets :
               /\ s # ws_websocket
               /\ ws_sockets[s] = "closing"
               /\ ws_sockets'[s] # ws_sockets[s])
          => /\ ws_state' = ws_state
             /\ ws_reconnect_attempts' = ws_reconnect_attempts]_vars

(***************************************************************************)
(* The native transport's peer table                                       *)
(***************************************************************************)
\* C31: a peer is in connected_peers() and is_connected(p) is true exactly when
\* the swarm has at least one connection to it that was established and has
\* not closed.  The ConnectionClosed arm removes the peer's whole entry, so a
\* peer with two connections disappears when the first of them closes.
C31_PeerTableLive ==
    \A p \in NativePeers :
        /\ (p \in ConnectedPeers) = (native_connections[p] # << >>)
        /\ NativeIsConnected(p) = (native_connections[p] # << >>)

(***************************************************************************)
(* Concurrent calls                                                        *)
(***************************************************************************)
\* no call is in progress on the controller
Quiescent == \A t \in Tasks : tasks[t].pc = "idle"

\* C32: whenever no call is in progress, is_connected() is true exactly when a
\* client is held, whatever the interleaving of connect and disconnect.  Each
\* of the two writes the client and the flag under separate locks, so a
\* disconnect that runs between the two writes of a connect leaves the flag
\* set with no client, or the client held with the flag cleared.
C32_FlagMatchesClient ==
    Quiescent => (is_connected = (signaling_client # None))

\* a task is inside a method of the client
InClient(t) == tasks[t].pc \in {"sending", "receiving"}

\* C33: calls of join_room, discover_peers and get_swarm_entropy exclude one
\* another on the client: at most one task is inside a client method, no other
\* request goes out between a call's request and its response, and a response
\* is read only by the call whose request was the last one sent.
C33_ClientCallsExclusive ==
    /\ \A t, u \in Tasks : (InClient(t) /\ InClient(u)) => t = u
    /\ \A t \in Tasks : tasks[t].pc = "receiving" => wire.task = t
    /\ (task_last.op \in ClientCalls /\ task_last.sender # "none")
          => task_last.sender = task_last.task

\* taskA's discover_peers has returned the peers it asked for, and a call of
\* taskB is now waiting for its own response
C33_Witness ==
    /\ task_last.task = "taskA"
    /\ task_last.op = "discover_peers"
    /\ task_last.ret.ok
    /\ task_last.sender = "taskA"
    /\ tasks["taskB"].pc = "receiving"
    /\ wire.task = "taskB"

====
